---- MODULE Spec2Model ----
(***************************************************************************)
(* A model of the resilience-and-caching core of groq-client:              *)
(*   - pkg/groq/semantic_cache/cache.go : SemanticCache (Get, Set, Delete, *)
(*     Clear, prune, rebuildVectorsAndKeys, cosineSimilarity, isExpired)   *)
(*   - internal/util/http.go (src/unnamed/part_007) : HTTPClient.DoRequest,*)
(*     doRequestWithRetry, RateLimiter (NewRateLimiter, Wait, refillTokens)*)
(*                                                                         *)
(* Every cache operation runs under sc.mu, so each is one atomic action.   *)
(* Time is a discrete clock `now`.  float32 similarities are kept as exact *)
(* values d/sqrt(n) and compared exactly.                                  *)
(***************************************************************************)
EXTENDS Integers, Sequences, FiniteSets, TLC

VARIABLES
    \* ---- SemanticCache (cache.go:28-38) ----
    entries,    \* sc.entries : key -> CacheEntry
    vectors,    \* sc.vectors : sequence of embeddings, parallel to keys
    keys,       \* sc.keys    : sequence of keys
    metrics,    \* sc.metrics : TotalRequests, CacheHits, CacheMisses, EvictionCount, Size
    now,        \* time.Now(), in clock ticks
    fresh,      \* history: keys whose last Set was followed by no prune, Delete(k) or Clear
    persistPath,  \* sc.config.PersistPath; "" when sc.persister is nil
    saving,       \* the goroutines of persister.Save started and not yet returned
    inSave,       \* those of them that hold p.mu, the file created
    file,         \* the file at PersistPath
    \* ---- HTTPClient / RateLimiter (part_007) ----
    method,       \* per call: which entry point was called
    retryConfig,  \* c.retryConfig.MaxRetries
    capacity,     \* cap(rl.tokens)
    tokens,       \* len(rl.tokens)
    pc,           \* per call: where the call is
    attempt,      \* per call: the loop variable of doRequestWithRetry
    lastErr,      \* per call: lastErr of doRequestWithRetry
    status,       \* per call: resp.StatusCode()
    ctxDone,      \* per call: whether the caller's context is cancelled
    retryRet,     \* per call: what doRequestWithRetry returned
    result,       \* per call: what DoRequest / DoMultipartForm returned
    hist,         \* history counters (taken, ticks, attempts, ...)
    \* ---- goroutines on one SemanticCache, statement by statement ----
    mu,           \* sc.mu : the writer holding it and the readers holding it
    th,           \* per goroutine: the operation it is in, where, and its locals
    win,          \* history, per GetStats in progress: the stats of the states it ran through
    \* ---- Client (part_008:22-27) ----
    cl,           \* one call of CreateChatCompletion: c.cache set or nil, where the call is, its locals
    cfg,          \* c.config and the configuration c.httpClient was last built from
    bp            \* a BatchProcessor and its ProcessBatch: the loop, the goroutines of the batch

cacheVars == <<entries, vectors, keys, metrics, now, fresh, persistPath, saving,
              inSave, file>>
httpVars == <<method, retryConfig, capacity, tokens, pc, attempt, lastErr, status, ctxDone,
              retryRet, result, hist>>
vars == <<entries, vectors, keys, metrics, now, fresh, persistPath, saving, inSave, file,
          method, retryConfig, capacity, tokens, pc, attempt, lastErr, status, ctxDone,
          retryRet, result, hist,
          mu, th, win, cl, cfg, bp>>
threadVars == <<mu, th, win>>
clientVars == <<cl, cfg, bp>>
besidesCache == <<httpVars, threadVars, clientVars>>
besidesHTTP == <<cacheVars, threadVars, clientVars>>

None == "none"

\* No goroutine modelled statement by statement.
IdleThreadVars ==
    /\ mu = [writer |-> None, readers |-> {}]
    /\ th = <<>>
    /\ win = <<>>
    /\ cl = <<>>
    /\ cfg = <<>>
    /\ bp = <<>>

(***************************************************************************)
(* Bounds of the model.                                                    *)
(***************************************************************************)
MaxTime == 2          \* the clock runs 0..MaxTime
MaxIndex == 3         \* Set is taken while len(sc.keys) < MaxIndex
MaxRequests == 1      \* Get is taken while TotalRequests < MaxRequests
MaxSizeTotal == 4     \* Set is taken while the running size stays <= MaxSizeTotal
MaxEvictions == 2     \* prune is taken while EvictionCount stays <= MaxEvictions
NCalls == 1           \* concurrent calls of DoRequest
NWaiters == 3         \* concurrent calls at the limiter, when only the limiter runs
MaxTicks == 2         \* refill ticks of the limiter's ticker
MaxCfgRetries == 1    \* HTTPClientConfig.MaxRetries is drawn from 0..MaxCfgRetries
MaxCfgRPS == 1        \* HTTPClientConfig.RequestsPerSecond is drawn from 0..MaxCfgRPS
MaxSaving == 2        \* Set starts a save while fewer than MaxSaving are running
MaxOptions == 2       \* options passed to NewClient
MaxRateLimit == 2     \* WithRateLimit is called with 0..MaxRateLimit
MaxBatchSize == 2     \* NewBatchProcessor is called with batchSize in 0..MaxBatchSize
MaxParallel == 2      \* and with maxParallel in 1..MaxParallel
MaxBatchRequests == 3 \* ProcessBatch is called with 0..MaxBatchRequests requests

(***************************************************************************)
(* The cache's configuration (config.go:9-18), scaled to the model: TTL in *)
(* clock ticks, MaxCacheSize in size units, the default threshold 0.85.    *)
(***************************************************************************)
ConfigTTL == 1
MaxCacheSize == 3
SimilarityThreshold == [d |-> 17, n |-> 400]      \* 0.85 = 17/sqrt(400)

Queries == {"ka", "kb", "kc"}      \* the texts Get is asked for
StoredKeys == {"ka", "kb"}         \* the texts Set and Delete are called with
Responses == {"r1", "r2"}

\* calculateSize: the length of the response's JSON form.
calculateSize(response) == IF response = "r1" THEN 1 ELSE 2

\* mockEmbedding: a deterministic vector per text, all of the same magnitude
\* (5 stands for the unit length normalize gives) and with components >= 0.
mockEmbedding(text) ==
    CASE text = "ka" -> <<3, 4>>
      [] text = "kb" -> <<4, 3>>
      [] OTHER       -> <<0, 5>>

\* GetEmbedding: an error when the context is done, else the embedding.
GetEmbeddingIgnoresContext(done, text) == [err |-> FALSE, vec |-> mockEmbedding(text)]

GetEmbedding(done, text) ==
    IF done THEN [err |-> TRUE, vec |-> <<>>]
    ELSE [err |-> FALSE, vec |-> mockEmbedding(text)]

(***************************************************************************)
(* cosineSimilarity.  A similarity is the exact value d / sqrt(n), n > 0.  *)
(***************************************************************************)
Abs(x) == IF x < 0 THEN -x ELSE x

RECURSIVE DotFrom(_, _, _)
DotFrom(a, b, i) == IF i > Len(a) THEN 0 ELSE a[i] * b[i] + DotFrom(a, b, i + 1)

SimZero == [d |-> 0, n |-> 1]
SimMinusOne == [d |-> -1, n |-> 1]

cosineSimilarity(a, b) ==
    IF Len(a) # Len(b) THEN SimZero
    ELSE LET dotProduct == DotFrom(a, b, 1)
             normA == DotFrom(a, a, 1)
             normB == DotFrom(b, b, 1)
         IN  IF normA = 0 \/ normB = 0 THEN SimZero
             ELSE [d |-> dotProduct, n |-> normA * normB]

\* x > y and x >= y on similarities: t |-> t*|t| is monotone.
SimGT(x, y) == x.d * Abs(x.d) * y.n > y.d * Abs(y.d) * x.n
SimGE(x, y) == x.d * Abs(x.d) * y.n >= y.d * Abs(y.d) * x.n

\* isExpired: now - CreatedAt > TTL.
isExpiredNever(entry, t) == FALSE

isExpiredLate(entry, t) == t - entry.CreatedAt > entry.TTL + 1

isExpired(entry, t) == t - entry.CreatedAt > entry.TTL

(***************************************************************************)
(* prune and rebuildVectorsAndKeys.  Go iterates a map in no fixed order   *)
(* and sort.Slice is not stable: every order the build can produce is an   *)
(* outcome.                                                                *)
(***************************************************************************)
RECURSIVE SumSize(_, _)
SumSize(e, S) ==
    IF S = {} THEN 0
    ELSE LET k == CHOOSE x \in S : TRUE IN e[k].Size + SumSize(e, S \ {k})

Perms(S) == {p \in [1..Cardinality(S) -> S] : \A i, j \in 1..Cardinality(S) : p[i] = p[j] => i = j}

\* The orders sort.Slice may leave: ascending in LastAccessed.
SortedAnyOrder(e, S) == Perms(S)

SortedByLastAccessed(e, S) ==
    {p \in Perms(S) : \A i, j \in 1..Cardinality(S) :
                         i < j => ~(e[p[j]].LastAccessed < e[p[i]].LastAccessed)}

\* The eviction loop of prune: how many entries of ord are deleted, front first,
\* before the running size is within MaxCacheSize.
EvictNothing(e, ord, i, size) == 0

RECURSIVE EvictCount(_, _, _, _)
EvictCount(e, ord, i, size) ==
    IF i > Len(ord) \/ size <= MaxCacheSize THEN i - 1
    ELSE EvictCount(e, ord, i + 1, size - e[ord[i]].Size)

\* rebuildVectorsAndKeys: the keys of the map in some order, the embeddings alike.
rebuildVectorsAndKeys(e) ==
    {[keys |-> p, vectors |-> [i \in 1..Len(p) |-> e[p[i]].Embedding]] : p \in Perms(DOMAIN e)}

\* prunedCount at the end of prune: one for each entry deleted.
prunedCountSizeOnly(nExpired, nEvicted) == nEvicted

prunedCount(nExpired, nEvicted) == nExpired + nEvicted

\* prune: the states it may end in, from entries e and metrics m at time t.
prune(e, m, t) ==
    LET expired == {k \in DOMAIN e : isExpired(e[k], t)}
        live == DOMAIN e \ expired
        size1 == m.Size - SumSize(e, expired)
        afterSort(ord) ==
            LET n == IF size1 > MaxCacheSize THEN EvictCount(e, ord, 1, size1) ELSE 0
                gone == {ord[i] : i \in 1..n}
                e2 == [k \in live \ gone |-> e[k]]
                m2 == [m EXCEPT !.Size = size1 - SumSize(e, gone),
                                !.EvictionCount = @ + prunedCount(Cardinality(expired), n)]
            IN  {[entries |-> e2, metrics |-> m2, keys |-> r.keys, vectors |-> r.vectors] :
                    r \in rebuildVectorsAndKeys(e2)}
    IN  UNION {afterSort(ord) : ord \in SortedByLastAccessed(e, live)}

(***************************************************************************)
(* The scan of Get (cache.go:174-188) from position i on: the best entry   *)
(* found, as its key, or None.                                             *)
(***************************************************************************)
bestKeyIndex(i) == Len(vectors)       \* key := sc.keys[len(sc.vectors)-1]

RECURSIVE GetScan(_, _, _, _)
GetScan(queryVector, i, maxSim, bestEntry) ==
    IF i > Len(vectors) THEN bestEntry
    ELSE LET sim == cosineSimilarity(queryVector, vectors[i])
         IN  IF SimGT(sim, maxSim) /\ SimGE(sim, SimilarityThreshold)
             THEN LET key == keys[bestKeyIndex(i)]
                  IN  IF key \in DOMAIN entries /\ ~isExpired(entries[key], now)
                      THEN GetScan(queryVector, i + 1, sim, key)
                      ELSE GetScan(queryVector, i + 1, sim, bestEntry)
             ELSE GetScan(queryVector, i + 1, maxSim, bestEntry)

(***************************************************************************)
(* The cache's operations.                                                 *)
(***************************************************************************)
NewCacheEntry(query, response, vector, t) ==
    [Key |-> query, Response |-> response, Embedding |-> vector, CreatedAt |-> t,
     LastAccessed |-> t, AccessCount |-> 0, Size |-> calculateSize(response),
     TTL |-> ConfigTTL]

\* What Get returns: (nil, false) when the embedding fails or no entry was found,
\* else the found entry's Response and true.  hit is the entry found, as its key.
GetReturn(done, query) ==
    LET emb == GetEmbedding(done, query)
        bestEntry == IF emb.err THEN None ELSE GetScan(emb.vec, 1, SimMinusOne, None)
    IN  IF bestEntry # None
        THEN [found |-> TRUE, value |-> entries[bestEntry].Response, hit |-> bestEntry]
        ELSE [found |-> FALSE, value |-> None, hit |-> None]

GetOnCache(done, query) ==
    /\ metrics.TotalRequests < MaxRequests
    /\ LET r == GetReturn(done, query)
       IN  IF r.found
           THEN /\ metrics' = [metrics EXCEPT !.CacheHits = @ + 1, !.TotalRequests = @ + 1]
                /\ entries' = [entries EXCEPT ![r.hit].LastAccessed = now,
                                              ![r.hit].AccessCount = @ + 1]
           ELSE /\ metrics' = [metrics EXCEPT !.CacheMisses = @ + 1, !.TotalRequests = @ + 1]
                /\ UNCHANGED entries
    /\ UNCHANGED <<vectors, keys, now, fresh, persistPath, saving, inSave, file>>

Get(done, query) == GetOnCache(done, query) /\ UNCHANGED besidesCache

\* What Set returns: the embedding's error, else nil.
SetReturn(done, query) ==
    IF GetEmbedding(done, query).err THEN "failed to generate embedding" ELSE "nil"

\* Set on the cache's own state, whole; on success with a persister, go sc.persister.Save(sc.entries).
SetOnCache(done, query, response) ==
    /\ Len(keys) < MaxIndex
    /\ LET emb == GetEmbedding(done, query)
           entrySize == calculateSize(response)
           over == metrics.Size + entrySize > MaxCacheSize
           before == IF over THEN prune(entries, metrics, now)
                     ELSE {[entries |-> entries, metrics |-> metrics, keys |-> keys,
                            vectors |-> vectors]}
       IN  IF emb.err
           THEN UNCHANGED <<entries, vectors, keys, metrics, fresh, saving>>
           ELSE \E o \in before :
                /\ o.metrics.Size + entrySize <= MaxSizeTotal
                /\ o.metrics.EvictionCount <= MaxEvictions
                /\ IF persistPath # ""
                   THEN saving < MaxSaving /\ saving' = saving + 1
                   ELSE UNCHANGED saving
                /\ entries' = [k \in DOMAIN o.entries \cup {query} |->
                                 IF k = query
                                 THEN NewCacheEntry(query, response, emb.vec, now)
                                 ELSE o.entries[k]]
                /\ vectors' = Append(o.vectors, emb.vec)
                /\ keys' = Append(o.keys, query)
                /\ metrics' = [o.metrics EXCEPT !.Size = @ + entrySize]
                /\ fresh' = IF over THEN {query} ELSE fresh \cup {query}
    /\ UNCHANGED <<now, persistPath, inSave, file>>

Set(done, query, response) == SetOnCache(done, query, response) /\ UNCHANGED besidesCache

RemoveAt(s, i) == SubSeq(s, 1, i - 1) \o SubSeq(s, i + 1, Len(s))

\* What Delete returns: nil, on every path.
DeleteReturn(key) == "nil"

Delete(key) ==
    /\ IF key \in DOMAIN entries
       THEN /\ metrics' = [metrics EXCEPT !.Size = @ - entries[key].Size]
            /\ entries' = [k \in DOMAIN entries \ {key} |-> entries[k]]
            /\ IF \E i \in 1..Len(keys) : keys[i] = key
               THEN LET i == CHOOSE x \in 1..Len(keys) :
                               keys[x] = key /\ \A y \in 1..(x - 1) : keys[y] # key
                    IN  /\ vectors' = RemoveAt(vectors, i)
                        /\ keys' = RemoveAt(keys, i)
               ELSE UNCHANGED <<vectors, keys>>
       ELSE UNCHANGED <<entries, vectors, keys, metrics>>
    /\ fresh' = fresh \ {key}
    /\ UNCHANGED <<now, persistPath, saving, inSave, file>>
    /\ UNCHANGED besidesCache

ClearResetsCounters ==
    /\ entries' = <<>>
    /\ vectors' = <<>>
    /\ keys' = <<>>
    /\ metrics' = [TotalRequests |-> 0, CacheHits |-> 0, CacheMisses |-> 0,
                   EvictionCount |-> 0, Size |-> 0]
    /\ fresh' = {}
    /\ UNCHANGED <<now, persistPath, saving, inSave, file>>
    /\ UNCHANGED besidesCache

\* Clear: new map and slices, Size zeroed, nothing else touched.
Clear ==
    /\ entries' = <<>>
    /\ vectors' = <<>>
    /\ keys' = <<>>
    /\ metrics' = [metrics EXCEPT !.Size = 0]
    /\ fresh' = {}
    /\ UNCHANGED <<now, persistPath, saving, inSave, file>>
    /\ UNCHANGED besidesCache

\* The ticker goroutine of startAutoPrune: lock, prune, unlock.
AutoPrune ==
    /\ \E o \in prune(entries, metrics, now) :
          /\ o.metrics.EvictionCount <= MaxEvictions
          /\ entries' = o.entries
          /\ vectors' = o.vectors
          /\ keys' = o.keys
          /\ metrics' = o.metrics
    /\ fresh' = {}
    /\ UNCHANGED <<now, persistPath, saving, inSave, file>>
    /\ UNCHANGED besidesCache

\* Time passes.
Tick ==
    /\ now < MaxTime
    /\ now' = now + 1
    /\ UNCHANGED <<entries, vectors, keys, metrics, fresh, persistPath, saving, inSave, file>>
    /\ UNCHANGED besidesCache

(***************************************************************************)
(* Persister (part_006).  The file is absent, empty (created, nothing      *)
(* written, which does not decode), one document, or bytes of more than    *)
(* one writer.                                                             *)
(***************************************************************************)
NoFile == [state |-> "absent", doc |-> <<>>]
EmptyFile == [state |-> "empty", doc |-> <<>>]

\* json.NewEncoder(file).Encode(entries): each entry by its exported fields.
Encode(e) ==
    [k \in DOMAIN e |->
        [Key |-> e[k].Key, Response |-> e[k].Response, Embedding |-> e[k].Embedding,
         CreatedAt |-> e[k].CreatedAt, LastAccessed |-> e[k].LastAccessed,
         AccessCount |-> e[k].AccessCount, Size |-> e[k].Size, TTL |-> e[k].TTL]]

\* What the file holds after a writer that created it writes doc: the
\* document, unless another writer's bytes are in the file already.
written(f, doc) ==
    IF f.state = "empty" THEN [state |-> "doc", doc |-> doc]
    ELSE [state |-> "mixed", doc |-> <<>>]

\* p.mu: free when no Save holds it.
persisterAlwaysFree(holders) == TRUE

persisterFree(holders) == holders = 0

\* Persister.Save, first half: p.mu.Lock() and os.Create, which truncates the
\* file; when os.Create fails Save returns its error.
SaveCreate(ok) ==
    /\ saving > inSave
    /\ persisterFree(inSave)
    /\ IF ok
       THEN /\ file' = EmptyFile
            /\ inSave' = inSave + 1
            /\ UNCHANGED saving
       ELSE /\ saving' = saving - 1
            /\ UNCHANGED <<file, inSave>>
    /\ UNCHANGED <<entries, vectors, keys, metrics, now, fresh, persistPath>>
    /\ UNCHANGED besidesCache

SaveDoneCorrupts(ok) ==
    /\ inSave > 0
    /\ inSave' = inSave - 1
    /\ saving' = saving - 1
    /\ IF ok
       THEN file' = written(file, Encode(entries)) /\ UNCHANGED <<entries, vectors, keys, metrics>>
       ELSE /\ UNCHANGED file
            /\ entries' = <<>> /\ vectors' = <<>> /\ keys' = <<>>
            /\ metrics' = [metrics EXCEPT !.Size = 0]
    /\ UNCHANGED <<now, fresh, persistPath>>
    /\ UNCHANGED besidesCache

\* Persister.Save, second half: Encode writes the map as it is now, or fails
\* and leaves the file as created; Close, Unlock, and the goroutine returns.
SaveDone(ok) ==
    /\ inSave > 0
    /\ inSave' = inSave - 1
    /\ saving' = saving - 1
    /\ file' = IF ok THEN written(file, Encode(entries)) ELSE file
    /\ UNCHANGED <<entries, vectors, keys, metrics, now, fresh, persistPath>>
    /\ UNCHANGED besidesCache

\* Persister.Load: an error when the file is absent or does not decode.
Load(f) ==
    IF f.state = "doc" THEN [err |-> FALSE, entries |-> f.doc]
    ELSE [err |-> TRUE, entries |-> <<>>]

\* loadPersistedData at time t: the states the new cache may start in.
loadsExpiredToo(entry, t) == FALSE

skipsOnLoad(entry, t) == t - entry.CreatedAt > entry.TTL

loadPersistedData(f, t) ==
    LET l == Load(f)
        kept == {k \in DOMAIN l.entries : ~skipsOnLoad(l.entries[k], t)}
        e == [k \in kept |-> l.entries[k]]
    IN  IF l.err
        THEN {[entries |-> <<>>, keys |-> <<>>, vectors |-> <<>>, Size |-> 0]}
        ELSE {[entries |-> e, keys |-> r.keys, vectors |-> r.vectors, Size |-> SumSize(e, kept)] :
                 r \in rebuildVectorsAndKeys(e)}

\* The process ends, its goroutines with it, and a new one calls
\* NewSemanticCache with the same PersistPath.
Restart ==
    /\ persistPath # ""
    /\ \E o \in loadPersistedData(file, now) :
          /\ entries' = o.entries
          /\ keys' = o.keys
          /\ vectors' = o.vectors
          /\ metrics' = [TotalRequests |-> 0, CacheHits |-> 0, CacheMisses |-> 0,
                         EvictionCount |-> 0, Size |-> o.Size]
    /\ saving' = 0
    /\ inSave' = 0
    /\ fresh' = {}
    /\ UNCHANGED <<now, persistPath, file>>
    /\ UNCHANGED besidesCache

\* GetStats: the counters and len(sc.entries).
GetStats ==
    [Hits |-> metrics.CacheHits, Misses |-> metrics.CacheMisses, Size |-> metrics.Size,
     ItemCount |-> Cardinality(DOMAIN entries)]

\* NewSemanticCache (cache.go:61-86): with a PersistPath a persister is made
\* and Load fails on the file that does not exist yet; the cache starts empty.
InitCacheWith(path) ==
    /\ persistPath = path
    /\ saving = 0
    /\ inSave = 0
    /\ file = NoFile
    /\ entries = <<>>
    /\ vectors = <<>>
    /\ keys = <<>>
    /\ metrics = [TotalRequests |-> 0, CacheHits |-> 0, CacheMisses |-> 0,
                  EvictionCount |-> 0, Size |-> 0]
    /\ now = 0
    /\ fresh = {}

\* NewSemanticCache with no PersistPath.
InitCacheVars == InitCacheWith("")

\* That cache after Set("ka", "r2") has returned.
CacheAfterOneSet ==
    /\ persistPath = ""
    /\ saving = 0
    /\ inSave = 0
    /\ file = NoFile
    /\ entries = [k \in {"ka"} |-> NewCacheEntry("ka", "r2", mockEmbedding("ka"), 0)]
    /\ vectors = <<mockEmbedding("ka")>>
    /\ keys = <<"ka">>
    /\ metrics = [TotalRequests |-> 0, CacheHits |-> 0, CacheMisses |-> 0,
                  EvictionCount |-> 0, Size |-> calculateSize("r2")]
    /\ now = 0
    /\ fresh = {"ka"}

CacheNext ==
    \/ \E done \in BOOLEAN, q \in Queries : Get(done, q)
    \/ \E done \in BOOLEAN, q \in StoredKeys, r \in Responses : Set(done, q, r)
    \/ \E k \in StoredKeys : Delete(k)
    \/ Clear
    \/ AutoPrune
    \/ Tick

(***************************************************************************)
(* HTTPClient and RateLimiter (part_007).                                  *)
(***************************************************************************)
Calls == 1..NCalls
Waiters == 1..NWaiters
Statuses == {200, 404, 429, 503}      \* the statuses the server answers with

DefaultMaxRetries == 3
DefaultRequestsPerSecond == 10
DefaultRetryWaitTime == 1

\* NewHTTPClient: a zero field of the config takes its default.
NewHTTPClient(config) ==
    [MaxRetries |-> IF config.MaxRetries = 0 THEN DefaultMaxRetries ELSE config.MaxRetries,
     RequestsPerSecond |-> IF config.RequestsPerSecond = 0 THEN DefaultRequestsPerSecond
                           ELSE config.RequestsPerSecond,
     RetryWaitTime |-> IF config.RetryWaitTime = 0 THEN DefaultRetryWaitTime
                       ELSE config.RetryWaitTime]

\* NewRateLimiter: a channel of that capacity, filled.
NewRateLimiter(requestsPerSecond) ==
    [capacity |-> requestsPerSecond, tokens |-> requestsPerSecond]

\* Errors: nil, the transport's error, "received status code %d".
NilErr == [kind |-> "nil", code |-> 0]
TransportErr == [kind |-> "transport", code |-> 0]
StatusErr(statusCode) == [kind |-> "status", code |-> statusCode]

\* What a call has returned: nothing yet, or a value with the error it wraps.
Pending == [kind |-> "pending", wraps |-> NilErr]
Returned(kind, wraps) == [kind |-> kind, wraps |-> wraps]

\* What c.client.Do may do: fail in the transport, or answer with a status.
Outcomes == {[err |-> TRUE, code |-> 0]} \cup {[err |-> FALSE, code |-> s] : s \in Statuses}

\* The two entry points that share the limiter and the retry loop.
Methods == {"DoRequest", "DoMultipartForm"}

isRetryableStatusCode(statusCode) == statusCode \in {429, 500, 502, 503, 504}

\* The loop condition of doRequestWithRetry.
loopStopsOneEarly(a, maxRetries) == a < maxRetries

loopContinues(a, maxRetries) == a <= maxRetries

\* DoRequest's reading of the final status.
statusFailsFrom500(statusCode) == statusCode >= 500

statusFails(statusCode) == statusCode >= 400

\* What the entry point returns once doRequestWithRetry has returned nil:
\* ErrRequestFailed on a failing status; else DoRequest returns the body, and
\* DoMultipartForm returns nil or, when the body does not parse, ErrResponseParsing.
finalResults(m, statusCode) ==
    IF statusFails(statusCode) THEN {Returned("ErrRequestFailed", NilErr)}
    ELSE IF m = "DoRequest" THEN {Returned("body", NilErr)}
    ELSE {Returned("nil", NilErr), Returned("ErrResponseParsing", NilErr)}

\* fmt.Errorf("%w: %v", ErrRateLimitExceeded, err) around the error of Wait.
wrapsNothing(err) == Returned("ctx.Err", err)

wrapRateLimit(err) == Returned("ErrRateLimitExceeded", err)

\* The argument of time.Sleep before attempt a, a > 0.
retrySleepConstant(retryWaitTime, a) == retryWaitTime

retrySleep(retryWaitTime, a) == retryWaitTime * a

\* <-rl.tokens: one token leaves the channel.
takeTokenLeavesIt(t) == t

takeToken(t) == t - 1

\* One tick of refillTokens: a token is sent unless the channel is full.
refillAlways(t, cap) == t + 1

refillNever(t, cap) == t

refill(t, cap) == IF t < cap THEN t + 1 ELSE t

\* RateLimiter.Wait, a token received.  When the context is done too, select
\* takes either ready case: WaitCancelled is enabled as well.
WaitAcquire(p) ==
    /\ pc[p] = "wait"
    /\ tokens > 0
    /\ tokens' = takeToken(tokens)
    /\ pc' = [pc EXCEPT ![p] = "loop"]
    /\ hist' = [hist EXCEPT !.taken = @ + 1]
    /\ UNCHANGED <<method, retryConfig, capacity, attempt, lastErr, status, ctxDone, retryRet, result>>
    /\ UNCHANGED besidesHTTP

\* RateLimiter.Wait, the context done: the entry point returns
\* ErrRateLimitExceeded at once.
WaitCancelled(p) ==
    /\ pc[p] = "wait"
    /\ ctxDone[p]
    /\ result' = [result EXCEPT ![p] = wrapRateLimit(NilErr)]
    /\ pc' = [pc EXCEPT ![p] = "done"]
    /\ UNCHANGED <<method, retryConfig, capacity, tokens, attempt, lastErr, status, ctxDone,
                   retryRet, hist>>
    /\ UNCHANGED besidesHTTP

\* The head of one iteration of doRequestWithRetry's loop: the loop condition,
\* the non-blocking look at ctx.Done(), and whether to sleep.  hist.slept is
\* the argument of the call's last time.Sleep, 0 before any.
LoopHead(p) ==
    /\ pc[p] = "loop"
    /\ IF ~loopContinues(attempt[p], retryConfig)
       THEN /\ retryRet' = [retryRet EXCEPT ![p] = Returned("max retries exceeded", lastErr[p])]
            /\ result' = [result EXCEPT ![p] = Returned("max retries exceeded", lastErr[p])]
            /\ pc' = [pc EXCEPT ![p] = "done"]
       ELSE IF ctxDone[p]
       THEN /\ retryRet' = [retryRet EXCEPT ![p] = Returned("ctx.Err", NilErr)]
            /\ result' = [result EXCEPT ![p] = Returned("ctx.Err", NilErr)]
            /\ pc' = [pc EXCEPT ![p] = "done"]
       ELSE /\ pc' = [pc EXCEPT ![p] = IF attempt[p] > 0 THEN "sleep" ELSE "do"]
            /\ UNCHANGED <<retryRet, result>>
    /\ hist' = IF loopContinues(attempt[p], retryConfig) /\ ~ctxDone[p] /\ attempt[p] > 0
               THEN [hist EXCEPT !.slept[p] = retrySleep(hist.retryWaitTime, attempt[p])]
               ELSE hist
    /\ UNCHANGED <<method, retryConfig, capacity, tokens, attempt, lastErr, status, ctxDone>>
    /\ UNCHANGED besidesHTTP

\* time.Sleep(RetryWaitTime * attempt) returns.
SleepDone(p) ==
    /\ pc[p] = "sleep"
    /\ pc' = [pc EXCEPT ![p] = "do"]
    /\ UNCHANGED <<method, retryConfig, capacity, tokens, attempt, lastErr, status, ctxDone,
                   retryRet, result, hist>>
    /\ UNCHANGED besidesHTTP

\* DoMultipartForm, between Wait and the loop: writing the form fails (the
\* file's reader fails) and the call returns before any attempt.
FormFails(p) ==
    /\ pc[p] = "loop"
    /\ method[p] = "DoMultipartForm"
    /\ hist.att[p] = 0
    /\ result' = [result EXCEPT ![p] = Returned("form error", NilErr)]
    /\ pc' = [pc EXCEPT ![p] = "done"]
    /\ UNCHANGED <<method, retryConfig, capacity, tokens, attempt, lastErr, status, ctxDone,
                   retryRet, hist>>
    /\ UNCHANGED besidesHTTP

\* c.client.Do(req, resp): a transport error, or a response with a status; then
\* what doRequestWithRetry and the entry point make of it.
Do(p, outcome) ==
    /\ pc[p] = "do"
    /\ IF outcome.err
       THEN /\ lastErr' = [lastErr EXCEPT ![p] = TransportErr]
            /\ attempt' = [attempt EXCEPT ![p] = @ + 1]
            /\ pc' = [pc EXCEPT ![p] = "loop"]
            /\ hist' = [hist EXCEPT !.att[p] = @ + 1, !.fails[p] = @ + 1,
                                    !.lastFail[p] = TransportErr]
            /\ UNCHANGED <<status, retryRet, result>>
       ELSE IF isRetryableStatusCode(outcome.code)
       THEN /\ status' = [status EXCEPT ![p] = outcome.code]
            /\ lastErr' = [lastErr EXCEPT ![p] = StatusErr(outcome.code)]
            /\ attempt' = [attempt EXCEPT ![p] = @ + 1]
            /\ pc' = [pc EXCEPT ![p] = "loop"]
            /\ hist' = [hist EXCEPT !.att[p] = @ + 1, !.fails[p] = @ + 1,
                                    !.lastFail[p] = StatusErr(outcome.code)]
            /\ UNCHANGED <<retryRet, result>>
       ELSE /\ status' = [status EXCEPT ![p] = outcome.code]
            /\ retryRet' = [retryRet EXCEPT ![p] = Returned("nil", NilErr)]
            /\ \E r \in finalResults(method[p], outcome.code) :
                   result' = [result EXCEPT ![p] = r]
            /\ pc' = [pc EXCEPT ![p] = "done"]
            /\ hist' = [hist EXCEPT !.att[p] = @ + 1]
            /\ UNCHANGED <<lastErr, attempt>>
    /\ UNCHANGED <<method, retryConfig, capacity, tokens, ctxDone>>
    /\ UNCHANGED besidesHTTP

\* The caller cancels the context of a call that has not returned.
Cancel(p) ==
    /\ pc[p] # "done"
    /\ ~ctxDone[p]
    /\ ctxDone' = [ctxDone EXCEPT ![p] = TRUE]
    /\ UNCHANGED <<method, retryConfig, capacity, tokens, pc, attempt, lastErr, status,
                   retryRet, result, hist>>
    /\ UNCHANGED besidesHTTP

\* The ticker of refillTokens fires.
RefillTick ==
    /\ hist.ticks < MaxTicks
    /\ tokens' = refill(tokens, capacity)
    /\ hist' = [hist EXCEPT !.ticks = @ + 1]
    /\ UNCHANGED <<method, retryConfig, capacity, pc, attempt, lastErr, status, ctxDone,
                   retryRet, result>>
    /\ UNCHANGED besidesHTTP

\* NewHTTPClient(config), then concurrent calls of DoRequest or
\* DoMultipartForm, each at its rateLimit.Wait.
InitHTTPWith(callers, configs) ==
    \E config \in configs :
        LET c == NewHTTPClient(config)
            rl == NewRateLimiter(c.RequestsPerSecond)
        IN  /\ method \in [callers -> Methods]
            /\ retryConfig = c.MaxRetries
            /\ capacity = rl.capacity
            /\ tokens = rl.tokens
            /\ pc = [p \in callers |-> "wait"]
            /\ attempt = [p \in callers |-> 0]
            /\ lastErr = [p \in callers |-> NilErr]
            /\ status = [p \in callers |-> 0]
            /\ ctxDone = [p \in callers |-> FALSE]
            /\ retryRet = [p \in callers |-> Pending]
            /\ result = [p \in callers |-> Pending]
            /\ hist = [cfgRetries |-> config.MaxRetries, retryWaitTime |-> c.RetryWaitTime,
                       slept |-> [p \in callers |-> 0],
                       taken |-> 0, ticks |-> 0, att |-> [p \in callers |-> 0],
                       fails |-> [p \in callers |-> 0], lastFail |-> [p \in callers |-> NilErr]]

\* The configurations drawn: zero (the defaults apply) and small values.
Configs == [MaxRetries : 0..MaxCfgRetries, RequestsPerSecond : 0..MaxCfgRPS, RetryWaitTime : {0}]

InitHTTPVars(callers) == InitHTTPWith(callers, Configs)

\* The calls of the transport; while they run its ticker refills the bucket
\* up to MaxTicks - 1 times (a tick that finds the bucket full sends nothing).
HTTPNext ==
    \/ \E p \in DOMAIN pc : WaitAcquire(p)
    \/ \E p \in DOMAIN pc : WaitCancelled(p)
    \/ \E p \in DOMAIN pc : FormFails(p)
    \/ \E p \in DOMAIN pc : LoopHead(p)
    \/ \E p \in DOMAIN pc : SleepDone(p)
    \/ \E p \in DOMAIN pc, outcome \in Outcomes : Do(p, outcome)
    \/ \E p \in DOMAIN pc : Cancel(p)
    \/ hist.ticks < MaxTicks - 1 /\ tokens < capacity /\ RefillTick

InitHTTP == InitHTTPVars(Calls) /\ InitCacheVars /\ IdleThreadVars

SpecHTTP == InitHTTP /\ [][HTTPNext]_vars

\* The limiter alone: the calls at rateLimit.Wait, the ticker, the contexts.
LimiterNext ==
    \/ \E p \in DOMAIN pc : WaitAcquire(p)
    \/ \E p \in DOMAIN pc : WaitCancelled(p)
    \/ \E p \in DOMAIN pc : Cancel(p)
    \/ RefillTick

\* The limiter's configurations: RequestsPerSecond alone matters to Wait.
InitLimiter ==
    /\ InitHTTPWith(Waiters, [MaxRetries : {0}, RequestsPerSecond : 0..MaxCfgRPS,
                              RetryWaitTime : {0}])
    /\ InitCacheVars
    /\ IdleThreadVars

SpecLimiter == InitLimiter /\ [][LimiterNext]_vars

\* The ticker of refillTokens fires, uncounted: the ticks of a ticker that is
\* never stopped.
RefillSustained ==
    /\ tokens' = refill(tokens, capacity)
    /\ UNCHANGED <<method, retryConfig, capacity, pc, attempt, lastErr, status, ctxDone,
                   retryRet, result, hist>>
    /\ UNCHANGED besidesHTTP

\* The limiter with a ticker that keeps ticking.  Fairness: the ticker's
\* goroutine keeps being scheduled (weak fairness of the tick), and a receiver
\* blocked on the channel is queued first-in first-out by the runtime, so a
\* waiter to which a token is offered again and again receives one (strong
\* fairness of each waiter's receive).
LimiterFairNext ==
    \/ \E p \in DOMAIN pc : WaitAcquire(p)
    \/ \E p \in DOMAIN pc : WaitCancelled(p)
    \/ \E p \in DOMAIN pc : Cancel(p)
    \/ RefillSustained

SpecLimiterFair ==
    /\ InitLimiter
    /\ [][LimiterFairNext]_vars
    /\ WF_vars(RefillSustained)
    /\ \A p \in Waiters : SF_vars(WaitAcquire(p))

\* Two concurrent calls on one client whose bucket holds a single token.
PairCalls == {1, 2}
PairConfigs == {[MaxRetries |-> 1, RequestsPerSecond |-> 1, RetryWaitTime |-> 0]}

InitHTTPPair == InitHTTPWith(PairCalls, PairConfigs) /\ InitCacheVars /\ IdleThreadVars

SpecHTTPPair == InitHTTPPair /\ [][HTTPNext]_vars

\* One call on a client whose retries and RetryWaitTime are configured or
\* left to the defaults.
RetryCalls == {1}
RetryConfigs == [MaxRetries : {1, 2}, RequestsPerSecond : {1}, RetryWaitTime : {0, 2}]

InitRetry == InitHTTPWith(RetryCalls, RetryConfigs) /\ InitCacheVars /\ IdleThreadVars

SpecRetry == InitRetry /\ [][HTTPNext]_vars

\* The transport's variables, idle, while only the cache runs.
IdleHTTPVars ==
    /\ method = <<>>
    /\ retryConfig = 0
    /\ capacity = 0
    /\ tokens = 0
    /\ pc = <<>>
    /\ attempt = <<>>
    /\ lastErr = <<>>
    /\ status = <<>>
    /\ ctxDone = <<>>
    /\ retryRet = <<>>
    /\ result = <<>>
    /\ hist = <<>>

InitCache == InitCacheVars /\ IdleHTTPVars /\ IdleThreadVars

SpecCache == InitCache /\ [][CacheNext]_vars

\* The cache with a PersistPath that cannot be created (its directory is
\* missing), its operations within one tick of the clock, and the background
\* saves its Sets start: each returns the error of os.Create.
CachePersistNext ==
    \/ \E done \in BOOLEAN, q \in Queries : Get(done, q)
    \/ \E done \in BOOLEAN, q \in StoredKeys, r \in Responses : Set(done, q, r)
    \/ \E k \in StoredKeys : Delete(k)
    \/ Clear
    \/ AutoPrune
    \/ SaveCreate(FALSE)

\* The cache with a PersistPath over time and across restarts of the process.
CacheRestartNext ==
    \/ \E q \in StoredKeys, r \in Responses : Set(FALSE, q, r)
    \/ Tick
    \/ \E ok \in BOOLEAN : SaveCreate(ok)
    \/ \E ok \in BOOLEAN : SaveDone(ok)
    \/ Restart

InitCachePersist == InitCacheWith("cache.json") /\ IdleHTTPVars /\ IdleThreadVars

SpecCachePersist == InitCachePersist /\ [][CachePersistNext]_vars

SpecCacheRestart == InitCachePersist /\ [][CacheRestartNext]_vars

(***************************************************************************)
(* Goroutines on one SemanticCache, statement by statement: sc.mu, the     *)
(* reads and writes of the counters, and GetStats, which takes no lock     *)
(* (cache.go:307-314).  Statements under the write lock that no goroutine  *)
(* without the lock can tell apart are one step.                           *)
(***************************************************************************)
\* One goroutine per call (`go cache.Get(...)`, `go cache.Set(...)`, ...) and
\* the goroutine startAutoPrune starts, which loops on the ticker.
Callers == {"g1", "g2"}
Timer == "timer"
Threads == Callers \cup {Timer}
Ops == {"Get", "Set", "Delete", "Clear", "GetStats"}
NoStats == [Hits |-> 0, Misses |-> 0, Size |-> 0, ItemCount |-> 0]
IdleThread == [op |-> None, pc |-> "idle", q |-> None, r |-> None, best |-> None,
               tmp |-> 0, st |-> NoStats]

\* A goroutine whose call has returned keeps the call's name and, for
\* GetStats, the struct returned; it makes no other call.
AfterReturn(call) == [IdleThread EXCEPT !.op = call.op, !.pc = "done", !.st = call.st]

\* sync.RWMutex: Lock waits for the writer and the readers, RLock for the writer.
canLockAnyway(m) == TRUE

canLock(m) == m.writer = None /\ m.readers = {}

canRLock(m) == m.writer = None

\* History: a GetStats in progress collects the stats of every state it runs
\* through in which no writer is inside its critical section.
Observe ==
    win' = [t \in Threads |->
              IF th'[t].op = "GetStats" /\ th'[t].pc # "done" /\ mu'.writer = None
              THEN win[t] \cup {GetStats'}
              ELSE IF th'[t].op = "GetStats" THEN win[t]
              ELSE {}]

\* The goroutine starts its call.  Get and Set call GetEmbedding first; a
\* failed Get goes on to CacheMisses++ with no lock, a failed Set returns.
\* GetStats reads CacheHits.
Begin(t, op, done, q, r) ==
    /\ th[t].pc = "idle"
    /\ LET call == [IdleThread EXCEPT !.op = op, !.q = q, !.r = r]
       IN  th' = [th EXCEPT ![t] =
                CASE op = "Get" ->
                        IF GetEmbedding(done, q).err
                        THEN [call EXCEPT !.pc = "wr", !.tmp = metrics.CacheMisses]
                        ELSE [call EXCEPT !.pc = "rlock"]
                  [] op = "Set" ->
                        IF GetEmbedding(done, q).err
                        THEN AfterReturn(call)
                        ELSE [call EXCEPT !.pc = "lock"]
                  [] op = "GetStats" ->
                        [call EXCEPT !.pc = "rdMisses", !.st.Hits = metrics.CacheHits]
                  [] OTHER -> [call EXCEPT !.pc = "lock"]]
    /\ UNCHANGED <<mu, cacheVars, httpVars, clientVars>>
    /\ Observe

\* startAutoPrune: the ticker fires and its goroutine goes for sc.mu.Lock().
TimerFires ==
    /\ th[Timer].pc = "idle"
    /\ th' = [th EXCEPT ![Timer] = [IdleThread EXCEPT !.op = "prune", !.pc = "lock"]]
    /\ UNCHANGED <<mu, cacheVars, httpVars, clientVars>>
    /\ Observe

\* Get: sc.mu.RLock().
RLock(t) ==
    /\ th[t].pc = "rlock"
    /\ canRLock(mu)
    /\ mu' = [mu EXCEPT !.readers = @ \cup {t}]
    /\ th' = [th EXCEPT ![t].pc = "scan"]
    /\ UNCHANGED <<cacheVars, httpVars, clientVars>>
    /\ Observe

\* Get: the scan, and the read of the counter it will increment.
Scan(t) ==
    /\ th[t].pc = "scan"
    /\ LET bestEntry == GetScan(mockEmbedding(th[t].q), 1, SimMinusOne, None)
       IN  th' = [th EXCEPT ![t].pc = "wr", ![t].best = bestEntry,
                            ![t].tmp = IF bestEntry # None THEN metrics.CacheHits
                                       ELSE metrics.CacheMisses]
    /\ UNCHANGED <<mu, cacheVars, httpVars, clientVars>>
    /\ Observe

\* Get: the write of CacheHits++ or CacheMisses++, the entry's LastAccessed
\* and AccessCount on a hit, and the deferred RUnlock.
GetWrite(t) ==
    /\ th[t].pc = "wr"
    /\ IF th[t].best # None
       THEN /\ metrics' = [metrics EXCEPT !.CacheHits = th[t].tmp + 1]
            /\ entries' = [entries EXCEPT ![th[t].best].LastAccessed = now,
                                          ![th[t].best].AccessCount = @ + 1]
       ELSE /\ metrics' = [metrics EXCEPT !.CacheMisses = th[t].tmp + 1]
            /\ UNCHANGED entries
    /\ mu' = [mu EXCEPT !.readers = @ \ {t}]
    /\ th' = [th EXCEPT ![t].pc = "totRd", ![t].best = None, ![t].q = None, ![t].tmp = 0]
    /\ UNCHANGED <<vectors, keys, now, fresh, persistPath, saving, inSave, file, httpVars, clientVars>>
    /\ Observe

\* Get: the deferred sc.metrics.TotalRequests++, its read.
TotRead(t) ==
    /\ th[t].pc = "totRd"
    /\ th' = [th EXCEPT ![t].pc = "totWr", ![t].tmp = metrics.TotalRequests]
    /\ UNCHANGED <<mu, cacheVars, httpVars, clientVars>>
    /\ Observe

\* Get: the deferred sc.metrics.TotalRequests++, its write.
TotWrite(t) ==
    /\ th[t].pc = "totWr"
    /\ metrics' = [metrics EXCEPT !.TotalRequests = th[t].tmp + 1]
    /\ th' = [th EXCEPT ![t] = AfterReturn(@)]
    /\ UNCHANGED <<mu, entries, vectors, keys, now, fresh, persistPath, saving, inSave, file,
                   httpVars, clientVars>>
    /\ Observe

\* A writer takes sc.mu.Lock() and runs the first statements of its critical
\* section: Set prunes if over budget, inserts the entry and appends to the
\* index; Delete subtracts the entry's size; Clear replaces map and slices;
\* startAutoPrune's goroutine runs prune.
Lock(t) ==
    /\ th[t].pc = "lock"
    /\ canLock(mu)
    /\ mu' = [mu EXCEPT !.writer = t]
    /\ th' = [th EXCEPT ![t].pc = "in"]
    /\ CASE th[t].op = "Set" ->
              LET query == th[t].q
                  vec == mockEmbedding(query)
                  entrySize == calculateSize(th[t].r)
                  over == metrics.Size + entrySize > MaxCacheSize
                  before == IF over THEN prune(entries, metrics, now)
                            ELSE {[entries |-> entries, metrics |-> metrics, keys |-> keys,
                                   vectors |-> vectors]}
              IN  /\ Len(keys) < MaxIndex
                  /\ \E o \in before :
                        /\ entries' = [k \in DOMAIN o.entries \cup {query} |->
                                         IF k = query
                                         THEN NewCacheEntry(query, th[t].r, vec, now)
                                         ELSE o.entries[k]]
                        /\ vectors' = Append(o.vectors, vec)
                        /\ keys' = Append(o.keys, query)
                        /\ metrics' = o.metrics
         [] th[t].op = "Delete" ->
              /\ metrics' = IF th[t].q \in DOMAIN entries
                            THEN [metrics EXCEPT !.Size = @ - entries[th[t].q].Size]
                            ELSE metrics
              /\ UNCHANGED <<entries, vectors, keys>>
         [] th[t].op = "Clear" ->
              /\ entries' = <<>>
              /\ vectors' = <<>>
              /\ keys' = <<>>
              /\ UNCHANGED metrics
         [] OTHER ->
              \E o \in prune(entries, metrics, now) :
                  /\ entries' = o.entries
                  /\ vectors' = o.vectors
                  /\ keys' = o.keys
                  /\ metrics' = o.metrics
    /\ UNCHANGED <<now, fresh, persistPath, saving, inSave, file, httpVars, clientVars>>
    /\ Observe

\* The writer runs the rest of its critical section and unlocks: Set adds the
\* entry's size and, with a persister, starts go sc.persister.Save(sc.entries);
\* Delete deletes the entry and its first index slot; Clear
\* zeroes the size; startAutoPrune's goroutine goes back to wait for the ticker.
Unlock(t) ==
    /\ th[t].pc = "in"
    /\ mu' = [mu EXCEPT !.writer = None]
    /\ th' = [th EXCEPT ![t] = IF t = Timer THEN IdleThread ELSE AfterReturn(@)]
    /\ CASE th[t].op = "Set" ->
              /\ metrics' = [metrics EXCEPT !.Size = @ + calculateSize(th[t].r)]
              /\ UNCHANGED <<entries, vectors, keys>>
         [] th[t].op = "Delete" /\ th[t].q \in DOMAIN entries ->
              LET key == th[t].q
              IN  /\ entries' = [k \in DOMAIN entries \ {key} |-> entries[k]]
                  /\ IF \E i \in 1..Len(keys) : keys[i] = key
                     THEN LET i == CHOOSE x \in 1..Len(keys) :
                                     keys[x] = key /\ \A y \in 1..(x - 1) : keys[y] # key
                          IN  /\ vectors' = RemoveAt(vectors, i)
                              /\ keys' = RemoveAt(keys, i)
                     ELSE UNCHANGED <<vectors, keys>>
                  /\ UNCHANGED metrics
         [] th[t].op = "Clear" ->
              /\ metrics' = [metrics EXCEPT !.Size = 0]
              /\ UNCHANGED <<entries, vectors, keys>>
         [] OTHER -> UNCHANGED <<entries, vectors, keys, metrics>>
    /\ saving' = IF th[t].op = "Set" /\ persistPath # "" THEN saving + 1 ELSE saving
    /\ UNCHANGED <<now, fresh, persistPath, inSave, file, httpVars, clientVars>>
    /\ Observe

\* GetStats: the next field of the struct it returns, read with no lock.
StatsRead(t) ==
    /\ th[t].op = "GetStats"
    /\ th[t].pc \in {"rdMisses", "rdSize", "rdCount"}
    /\ th' = [th EXCEPT ![t] =
                CASE th[t].pc = "rdMisses" ->
                        [@ EXCEPT !.pc = "rdSize", !.st.Misses = metrics.CacheMisses]
                  [] th[t].pc = "rdSize" ->
                        [@ EXCEPT !.pc = "rdCount", !.st.Size = metrics.Size]
                  [] OTHER ->
                        [@ EXCEPT !.pc = "done", !.st.ItemCount = Cardinality(DOMAIN entries)]]
    /\ UNCHANGED <<mu, cacheVars, httpVars, clientVars>>
    /\ Observe

ThreadsNext ==
    \/ TimerFires
    \/ \E t \in Callers, op \in Ops, done \in BOOLEAN, q \in StoredKeys, r \in Responses :
          Begin(t, op, done, q, r)
    \/ \E t \in Threads : RLock(t)
    \/ \E t \in Threads : Scan(t)
    \/ \E t \in Threads : GetWrite(t)
    \/ \E t \in Threads : TotRead(t)
    \/ \E t \in Threads : TotWrite(t)
    \/ \E t \in Threads : Lock(t)
    \/ \E t \in Threads : Unlock(t)
    \/ \E t \in Threads : StatsRead(t)

\* The goroutines start on the cache NewSemanticCache made, or on that cache
\* after Set("ka", "r2") has returned.
InitThreads ==
    /\ InitCacheVars \/ CacheAfterOneSet
    /\ IdleHTTPVars
    /\ mu = [writer |-> None, readers |-> {}]
    /\ th = [t \in Threads |-> IdleThread]
    /\ win = [t \in Threads |-> {}]
    /\ cl = <<>>
    /\ cfg = <<>>
    /\ bp = <<>>

SpecThreads == InitThreads /\ [][ThreadsNext]_vars

\* The writers of a cache with a PersistPath and the saves its Sets start:
\* a save goroutine takes p.mu, never sc.mu, and encodes the map it was handed,
\* which is sc.entries itself.
ThreadsSaveNext ==
    \/ TimerFires
    \/ \E t \in Callers, op \in {"Set", "Delete"}, q \in StoredKeys, r \in Responses :
          Begin(t, op, FALSE, q, r)
    \/ \E t \in Threads : Lock(t)
    \/ \E t \in Threads : Unlock(t)
    \/ \E ok \in BOOLEAN : SaveCreate(ok)
    \/ \E ok \in BOOLEAN : SaveDone(ok)

InitThreadsSave ==
    /\ InitCacheWith("cache.json")
    /\ IdleHTTPVars
    /\ mu = [writer |-> None, readers |-> {}]
    /\ th = [t \in Threads |-> IdleThread]
    /\ win = [t \in Threads |-> {}]
    /\ cl = <<>>
    /\ cfg = <<>>
    /\ bp = <<>>

SpecThreadsSave == InitThreadsSave /\ [][ThreadsSaveNext]_vars

(***************************************************************************)
(* Client.CreateChatCompletion (part_008:108-144): one call, on a client   *)
(* made by NewClient with or without WithCache(a SemanticCache).           *)
(***************************************************************************)
TheCall == 1

\* NewClient's httpConfig.
NewClientHTTPConfig == [MaxRetries |-> 3, RequestsPerSecond |-> 10, RetryWaitTime |-> 1]

\* What CreateChatCompletion has returned: nothing yet, (resp, nil) with resp
\* from the cache or from the network, or (nil, err).
NotReturned == [kind |-> "pending", value |-> None, from |-> None, wraps |-> "nil"]
ReturnedResp(value, from) == [kind |-> "resp", value |-> value, from |-> from, wraps |-> "nil"]
ReturnedErr(err) == [kind |-> err, value |-> None, from |-> None, wraps |-> "nil"]

\* modelInfoMap (part_004:142-214), two of its rows: a model with a
\* MaxOutput and one with none; any other name is not in the map.
modelInfoMap ==
    [m \in {"llama-3.1-8b-instant", "gemma2-9b-it"} |->
        [MaxOutput |-> IF m = "llama-3.1-8b-instant" THEN 8192 ELSE 0]]

IsValid(m) == m \in DOMAIN modelInfoMap

GetInfo(m) == IF m \in DOMAIN modelInfoMap THEN modelInfoMap[m] ELSE [MaxOutput |-> 0]

\* info.MaxOutput > 0 && r.MaxTokens > info.MaxOutput.
exceedsLimitUnspecifiedToo(info, maxTokens) == maxTokens > info.MaxOutput

exceedsLimit(info, maxTokens) == info.MaxOutput > 0 /\ maxTokens > info.MaxOutput

\* ChatCompletionRequest.Validate: the error's text, or "nil".
Validate(r) ==
    IF ~IsValid(r.Model) THEN "invalid model"
    ELSE IF r.Messages = 0 THEN "at least one message is required"
    ELSE IF exceedsLimit(GetInfo(r.Model), r.MaxTokens) THEN "max_tokens exceeds model limit"
    ELSE "nil"

\* The requests drawn: the model, len(r.Messages), MaxTokens.
Requests ==
    [Model : {"llama-3.1-8b-instant", "gemma2-9b-it", "invalid-model"}, Messages : {0, 1},
     MaxTokens : {0, 100, 8192, 10000}]

\* CreateChatCompletion up to the cache: Validate, then the cache key (the
\* last message's content, a string).
CreateChatCompletion(req, content) ==
    /\ cl.pc = "idle"
    /\ cl' = IF Validate(req) # "nil"
             THEN [cl EXCEPT !.pc = "returned",
                             !.ret = [ReturnedErr("ErrInvalidRequest") EXCEPT
                                         !.wraps = Validate(req)]]
             ELSE [cl EXCEPT !.pc = IF cl.cache THEN "get" ELSE "net", !.cacheKey = content]
    /\ UNCHANGED <<cacheVars, httpVars, threadVars, cfg, bp>>

\* c.cache.Get(ctx, cacheKey): found, the call returns the cached response.
ClientGet ==
    /\ cl.pc = "get"
    /\ GetOnCache(ctxDone[TheCall], cl.cacheKey)
    /\ LET r == GetReturn(ctxDone[TheCall], cl.cacheKey)
       IN  cl' = IF r.found
                 THEN [cl EXCEPT !.pc = "returned", !.ret = ReturnedResp(r.value, "cache")]
                 ELSE [cl EXCEPT !.pc = "net"]
    /\ UNCHANGED <<httpVars, threadVars, cfg, bp>>

\* c.httpClient.DoJSON: DoRequest, step by step.
ClientDoRequest ==
    /\ cl.pc = "net"
    /\ \/ WaitAcquire(TheCall)
       \/ WaitCancelled(TheCall)
       \/ LoopHead(TheCall)
       \/ SleepDone(TheCall)
       \/ \E outcome \in Outcomes : Do(TheCall, outcome)

\* DoJSON returns: DoRequest's error, or the body parsed into result, or
\* ErrResponseParsing; CreateChatCompletion returns the error wrapped.
ClientDoJSONReturns(parses, response) ==
    /\ cl.pc = "net"
    /\ pc[TheCall] = "done"
    /\ cl' = IF result[TheCall].kind # "body"
             THEN [cl EXCEPT !.pc = "returned", !.ret = ReturnedErr(result[TheCall].kind)]
             ELSE IF ~parses
             THEN [cl EXCEPT !.pc = "returned", !.ret = ReturnedErr("ErrResponseParsing")]
             ELSE IF cl.cache
             THEN [cl EXCEPT !.pc = "set", !.result = response]
             ELSE [cl EXCEPT !.pc = "returned", !.result = response,
                             !.ret = ReturnedResp(response, "network")]
    /\ UNCHANGED <<cacheVars, httpVars, threadVars, cfg, bp>>

\* What the call returns after Set returned err: `_ =` drops it.
afterSetChecked(resp, err) ==
    IF err # "nil" THEN ReturnedErr(err) ELSE ReturnedResp(resp, "network")

afterSet(resp, err) == ReturnedResp(resp, "network")

\* _ = c.cache.Set(ctx, cacheKey, &result); return &result, nil.
ClientSet ==
    /\ cl.pc = "set"
    /\ SetOnCache(ctxDone[TheCall], cl.cacheKey, cl.result)
    /\ cl' = [cl EXCEPT !.pc = "returned",
                        !.ret = afterSet(cl.result, SetReturn(ctxDone[TheCall], cl.cacheKey)),
                        !.sets = Append(@, [key |-> cl.cacheKey,
                                            err |-> SetReturn(ctxDone[TheCall], cl.cacheKey)])]
    /\ UNCHANGED <<httpVars, threadVars, cfg, bp>>

\* The caller cancels ctx while the call is not in DoRequest.
ClientCancel ==
    /\ cl.pc \in {"idle", "get", "set"}
    /\ ~ctxDone[TheCall]
    /\ ctxDone' = [ctxDone EXCEPT ![TheCall] = TRUE]
    /\ UNCHANGED <<method, retryConfig, capacity, tokens, pc, attempt, lastErr, status,
                   retryRet, result, hist>>
    /\ UNCHANGED besidesHTTP

ClientNext ==
    \/ \E req \in Requests, content \in Queries : CreateChatCompletion(req, content)
    \/ ClientGet
    \/ ClientDoRequest
    \/ cl.pc = "net" /\ Cancel(TheCall)
    \/ \E parses \in BOOLEAN, response \in Responses : ClientDoJSONReturns(parses, response)
    \/ ClientSet
    \/ ClientCancel
    \/ RefillTick

InitClient ==
    /\ InitHTTPWith({TheCall}, {NewClientHTTPConfig})
    /\ method[TheCall] = "DoRequest"
    /\ InitCacheVars \/ CacheAfterOneSet
    /\ mu = [writer |-> None, readers |-> {}]
    /\ th = <<>>
    /\ win = <<>>
    /\ cfg = <<>>
    /\ bp = <<>>
    /\ \E cache \in BOOLEAN :
          cl = [cache |-> cache, pc |-> "idle", cacheKey |-> None, result |-> None,
                ret |-> NotReturned, sets |-> <<>>]

SpecClient == InitClient /\ [][ClientNext]_vars

(***************************************************************************)
(* NewClient(apiKey, opts...) (part_008:39-70) and the options of          *)
(* options.go: c.config and the HTTPClient each option builds.  Durations  *)
(* of timeouts are in seconds, the ticker's interval in nanoseconds.       *)
(***************************************************************************)
Second == 1000000000
DefaultTimeout == 30

\* defaultConfig().
defaultConfig ==
    [RetryConfig |-> [MaxRetries |-> 3, RetryDelay |-> 1],
     RateLimit |-> [RequestsPerMinute |-> 60, Enabled |-> TRUE]]

\* NewRateLimiter: time.NewTicker(time.Second / time.Duration(requestsPerSecond)).
tickerInterval(requestsPerSecond) == Second \div requestsPerSecond

\* A map[string]string is a function on its keys; nil and the empty map are
\* both <<>> (ranging over either visits nothing).
NoHeaders == <<>>

\* for k, v := range src { dst[k] = v }.
copyInto(dst, src) ==
    [k \in DOMAIN dst \cup DOMAIN src |-> IF k \in DOMAIN src THEN src[k] ELSE dst[k]]

\* util.NewHTTPClient(config): the fields after the defaults, the limiter
\* NewRateLimiter makes, and the copy of the base headers.
keepsZeroTimeout(t) == t

timeoutOrDefault(t) == IF t = 0 THEN DefaultTimeout ELSE t

BuildHTTPClient(config) ==
    LET c == NewHTTPClient(config)
    IN  [ReadTimeout |-> timeoutOrDefault(config.MaxRequestTimeout),
         MaxRetries |-> c.MaxRetries,
         RetryWaitTime |-> IF config.RetryWaitTime = 0 THEN DefaultRetryWaitTime
                           ELSE config.RetryWaitTime,
         RequestsPerSecond |-> c.RequestsPerSecond,
         limiter |-> [capacity |-> NewRateLimiter(c.RequestsPerSecond).capacity,
                      interval |-> tickerInterval(c.RequestsPerSecond)],
         baseHeaders |-> copyInto(NoHeaders, config.BaseHeaders)]

\* The tokens refillTokens offers in 60 seconds: the ticks of its ticker,
\* floor(60 * Second / interval).
refillsPerMinute(limiter) ==
    60 * (Second \div limiter.interval) + (60 * (Second % limiter.interval)) \div limiter.interval

\* History: the option applied last and how many were applied.
Applied(c, name, arg) == [n |-> c.applied.n + 1, name |-> name, arg |-> arg]

\* The client after WithRateLimit(requestsPerMinute).
afterWithRateLimit(c, requestsPerMinute) ==
    [config |-> [c.config EXCEPT !.RateLimit.RequestsPerMinute = requestsPerMinute,
                                 !.RateLimit.Enabled = TRUE],
     httpClient |-> BuildHTTPClient(
         [MaxRequestTimeout |-> c.httpClient.ReadTimeout,
          RequestsPerSecond |-> requestsPerMinute,
          MaxRetries |-> c.config.RetryConfig.MaxRetries,
          RetryWaitTime |-> c.config.RetryConfig.RetryDelay,
          BaseHeaders |-> c.httpClient.baseHeaders]),
     applied |-> Applied(c, "WithRateLimit", requestsPerMinute)]

WithRateLimit(requestsPerMinute) ==
    /\ cfg.applied.n < MaxOptions
    /\ cfg' = afterWithRateLimit(cfg, requestsPerMinute)
    /\ UNCHANGED <<cacheVars, httpVars, threadVars, cl, bp>>

WithTimeout(timeout) ==
    /\ cfg.applied.n < MaxOptions
    /\ cfg' = [config |-> cfg.config,
               httpClient |-> BuildHTTPClient(
                   [MaxRequestTimeout |-> timeout,
                    RequestsPerSecond |-> cfg.config.RateLimit.RequestsPerMinute,
                    MaxRetries |-> cfg.config.RetryConfig.MaxRetries,
                    RetryWaitTime |-> cfg.config.RetryConfig.RetryDelay,
                    BaseHeaders |-> cfg.httpClient.baseHeaders]),
               applied |-> Applied(cfg, "WithTimeout", timeout)]
    /\ UNCHANGED <<cacheVars, httpVars, threadVars, cl, bp>>

WithRetryConfig(maxRetries, retryWaitTime) ==
    /\ cfg.applied.n < MaxOptions
    /\ cfg' = [config |-> [cfg.config EXCEPT !.RetryConfig.MaxRetries = maxRetries,
                                             !.RetryConfig.RetryDelay = retryWaitTime],
               httpClient |-> BuildHTTPClient(
                   [MaxRequestTimeout |-> cfg.httpClient.ReadTimeout,
                    RequestsPerSecond |-> cfg.config.RateLimit.RequestsPerMinute,
                    MaxRetries |-> maxRetries,
                    RetryWaitTime |-> retryWaitTime,
                    BaseHeaders |-> cfg.httpClient.baseHeaders]),
               applied |-> Applied(cfg, "WithRetryConfig", maxRetries)]
    /\ UNCHANGED <<cacheVars, httpVars, threadVars, cl, bp>>

\* WithHTTPConfig: the client's current headers are written over the
\* config's, then NewHTTPClient(config).
WithHTTPConfig(config) ==
    /\ cfg.applied.n < MaxOptions
    /\ cfg' = [config |-> cfg.config,
               httpClient |-> BuildHTTPClient(
                   [config EXCEPT !.BaseHeaders = copyInto(@, cfg.httpClient.baseHeaders)]),
               applied |-> Applied(cfg, "WithHTTPConfig", 0)]
    /\ UNCHANGED <<cacheVars, httpVars, threadVars, cl, bp>>

\* The values the options are called with.
Timeouts == {1, 2}
RetryWaitTimes == {0, 2}
HeaderMaps == {NoHeaders, [k \in {"X-Org"} |-> "org"]}
HTTPConfigs ==
    [MaxRequestTimeout : {0, 1}, RequestsPerSecond : 0..MaxCfgRPS, MaxRetries : 0..MaxCfgRetries,
     RetryWaitTime : RetryWaitTimes, BaseHeaders : HeaderMaps]

OptionsNext ==
    \/ \E n \in 0..MaxRateLimit : WithRateLimit(n)
    \/ \E t \in Timeouts : WithTimeout(t)
    \/ \E m \in 0..MaxCfgRetries, w \in RetryWaitTimes : WithRetryConfig(m, w)
    \/ \E config \in HTTPConfigs : WithHTTPConfig(config)

\* NewClient before its options are applied.
NewClient ==
    [config |-> defaultConfig,
     httpClient |-> BuildHTTPClient(
         [MaxRequestTimeout |-> DefaultTimeout,
          RequestsPerSecond |-> NewClientHTTPConfig.RequestsPerSecond,
          MaxRetries |-> NewClientHTTPConfig.MaxRetries,
          RetryWaitTime |-> 1,
          BaseHeaders |-> [k \in {"Authorization", "Content-Type"} |->
                             IF k = "Authorization" THEN "Bearer key" ELSE "application/json"]]),
     applied |-> [n |-> 0, name |-> None, arg |-> 0]]

InitOptions ==
    /\ InitCacheVars
    /\ IdleHTTPVars
    /\ mu = [writer |-> None, readers |-> {}]
    /\ th = <<>>
    /\ win = <<>>
    /\ cl = <<>>
    /\ bp = <<>>
    /\ cfg = NewClient

SpecOptions == InitOptions /\ [][OptionsNext]_vars

(***************************************************************************)
(* BatchProcessor.ProcessBatch and CreateParallelCompletions               *)
(* (part_002:286-367): the loop over the batches, one goroutine per        *)
(* request of the batch, the channel rateLimiter they share.  A request is *)
(* in flight while its goroutine is inside CreateChatCompletion.           *)
(***************************************************************************)
\* end := i + bp.batchSize; if end > len(requests) { end = len(requests) }.
endOfBatch(i, batchSize, n) == IF i + batchSize > n THEN n ELSE i + batchSize

\* The goroutines whose request is in flight.
InFlight == {k \in DOMAIN bp.g : bp.g[k] = "flight"}

\* for i := 0; i < len(requests); i += bp.batchSize: the next batch
\* requests[i:end] goes to CreateParallelCompletions, which makes the channel
\* and starts one goroutine per request; or the loop ends and ProcessBatch
\* returns.
BatchLoop ==
    /\ bp.pc = "loop"
    /\ bp' = IF bp.i < bp.n
             THEN LET end == endOfBatch(bp.i, bp.batchSize, bp.n)
                  IN  [bp EXCEPT !.pc = "wait", !.g = [k \in (bp.i + 1)..end |-> "start"],
                                 !.rateLimiter = 0]
             ELSE [bp EXCEPT !.pc = "returned"]
    /\ UNCHANGED <<cacheVars, httpVars, threadVars, cl, cfg>>

\* A goroutine of the batch: rateLimiter <- struct{}{} when rate limiting is
\* enabled, then it calls CreateChatCompletion.
BatchAcquire(k) ==
    /\ bp.pc = "wait"
    /\ k \in DOMAIN bp.g
    /\ bp.g[k] = "start"
    /\ IF cfg.config.RateLimit.Enabled
       THEN /\ bp.rateLimiter < cfg.config.RateLimit.RequestsPerMinute
            /\ bp' = [bp EXCEPT !.g[k] = "flight", !.rateLimiter = @ + 1]
       ELSE bp' = [bp EXCEPT !.g[k] = "flight"]
    /\ UNCHANGED <<cacheVars, httpVars, threadVars, cl, cfg>>

\* CreateChatCompletion returns; the response is stored, the deferred
\* <-rateLimiter and wg.Done() run.
BatchComplete(k) ==
    /\ bp.pc = "wait"
    /\ k \in DOMAIN bp.g
    /\ bp.g[k] = "flight"
    /\ bp' = [bp EXCEPT !.g[k] = "done",
                        !.rateLimiter = IF cfg.config.RateLimit.Enabled THEN @ - 1 ELSE @]
    /\ UNCHANGED <<cacheVars, httpVars, threadVars, cl, cfg>>

\* wg.Wait() returns; the responses, one per request of the batch and in the
\* batch's order (each named here by its request's place in the input), are
\* appended and the loop goes on.
BatchWait ==
    /\ bp.pc = "wait"
    /\ \A k \in DOMAIN bp.g : bp.g[k] = "done"
    /\ bp' = [bp EXCEPT !.pc = "loop", !.g = <<>>, !.i = bp.i + bp.batchSize,
                        !.totalResponses =
                            @ \o [j \in 1..Cardinality(DOMAIN bp.g) |-> bp.i + j]]
    /\ UNCHANGED <<cacheVars, httpVars, threadVars, cl, cfg>>

BatchNext ==
    \/ BatchLoop
    \/ \E k \in 1..MaxBatchRequests : BatchAcquire(k)
    \/ \E k \in 1..MaxBatchRequests : BatchComplete(k)
    \/ BatchWait

\* client.NewBatchProcessor(batchSize, maxParallel) on a client made with no
\* option or with WithRateLimit, and ProcessBatch called with n requests.
InitBatch ==
    /\ InitCacheVars
    /\ IdleHTTPVars
    /\ mu = [writer |-> None, readers |-> {}]
    /\ th = <<>>
    /\ win = <<>>
    /\ cl = <<>>
    /\ cfg \in {NewClient} \cup {afterWithRateLimit(NewClient, n) : n \in 0..MaxRateLimit}
    /\ \E batchSize \in 0..MaxBatchSize, maxParallel \in 1..MaxParallel,
          n \in 0..MaxBatchRequests :
          bp = [batchSize |-> batchSize, maxParallel |-> maxParallel, rateLimiting |-> TRUE,
                n |-> n, i |-> 0, pc |-> "loop", g |-> <<>>, rateLimiter |-> 0,
                totalResponses |-> <<>>]

SpecBatch == InitBatch /\ [][BatchNext]_vars

\* ProcessBatch with every goroutine scheduled and every request completing.
\* Fairness: the goroutine of ProcessBatch runs on when it can (the loop, the
\* return of wg.Wait), a goroutine whose send on rateLimiter can proceed
\* proceeds, and every CreateChatCompletion in flight returns.
SpecBatchFair ==
    /\ InitBatch
    /\ [][BatchNext]_vars
    /\ WF_vars(BatchLoop)
    /\ WF_vars(BatchWait)
    /\ \A k \in 1..MaxBatchRequests : WF_vars(BatchAcquire(k)) /\ WF_vars(BatchComplete(k))

Init ==
    \/ InitCache \/ InitHTTP \/ InitLimiter \/ InitHTTPPair \/ InitRetry \/ InitCachePersist
    \/ InitThreads \/ InitThreadsSave \/ InitClient \/ InitOptions \/ InitBatch

Next ==
    \/ CacheNext \/ HTTPNext \/ RefillSustained
    \/ CachePersistNext \/ CacheRestartNext \/ ThreadsNext \/ ThreadsSaveNext
    \/ ClientNext \/ OptionsNext \/ BatchNext

Spec == Init /\ [][Next]_vars

(***************************************************************************)
(* The claims about the cache, under SpecCache.                            *)
(***************************************************************************)
IndexKeys == {keys[i] : i \in 1..Len(keys)}

\* The entries a lookup of query may return under the contract: not expired,
\* at or above the threshold, and of maximum similarity among those.
Candidates(query) ==
    {k \in DOMAIN entries :
        /\ ~isExpired(entries[k], now)
        /\ SimGE(cosineSimilarity(mockEmbedding(query), entries[k].Embedding),
                 SimilarityThreshold)}

BestCandidates(query) ==
    {k \in Candidates(query) :
        \A j \in Candidates(query) :
            SimGE(cosineSimilarity(mockEmbedding(query), entries[k].Embedding),
                  cosineSimilarity(mockEmbedding(query), entries[j].Embedding))}

\* C1: in every reachable cache state and for every query, Get returns the
\* value of a non-expired entry of maximum cosine similarity to the query among
\* the entries at or above SimilarityThreshold, and reports a miss only when no
\* non-expired entry reaches the threshold.
C1_GetReturnsBestLiveEntry ==
    \A q \in Queries :
        LET r == GetReturn(FALSE, q)
        IN  IF Candidates(q) = {} THEN ~r.found
            ELSE r.found /\ \E k \in BestCandidates(q) : r.value = entries[k].Response

\* C2: once Set(k, v) has returned, with no prune, Delete(k), Clear or overwrite
\* of k since (k is in fresh, and v is entries[k].Response) and v not expired,
\* Get(k) returns (v, true), whatever Sets of other keys came in between.
C2_SetThenGetReturnsValue ==
    \A k \in fresh :
        ~isExpired(entries[k], now) =>
            LET r == GetReturn(FALSE, k)
            IN  r.found /\ r.value = entries[k].Response

\* C3: outside a mutation (every state of this model) the set of keys in the
\* index equals the set of keys of the entry map.
C3_IndexKeysEqualEntryKeys == IndexKeys = DOMAIN entries

\* C4: outside a mutation the running size total equals the sum of Size over
\* the entries of the entry map.
C4_SizeEqualsSumOfEntries == metrics.Size = SumSize(entries, DOMAIN entries)

(***************************************************************************)
(* The claims about the transport (SpecHTTP) and the limiter (SpecLimiter). *)
(***************************************************************************)
RetryableStatuses == {429, 500, 502, 503, 504}

RECURSIVE SumOver(_, _)
SumOver(f, S) ==
    IF S = {} THEN 0
    ELSE LET x == CHOOSE y \in S : TRUE IN f[x] + SumOver(f, S \ {x})

Min(a, b) == IF a < b THEN a ELSE b

\* C5: a call whose doRequestWithRetry returns nil made exactly one attempt
\* more than the failures (transport errors, retryable statuses) before it, at
\* most MaxRetries of them, and its last answer is a non-retryable status; a
\* call whose attempts all fail makes exactly MaxRetries+1 attempts and returns
\* "max retries exceeded" wrapping the last error; an attempt answered with a
\* non-retryable status is the call's last; only a call whose context is
\* cancelled returns otherwise (the context's error).
C5_RetryCount ==
    /\ retryConfig >= 1
    /\ \A p \in DOMAIN pc :
        /\ retryRet[p].kind \in {"pending", "nil", "ctx.Err", "max retries exceeded"}
        /\ retryRet[p].kind = "nil" =>
              /\ hist.att[p] = hist.fails[p] + 1
              /\ hist.fails[p] <= retryConfig
              /\ status[p] \notin RetryableStatuses
        /\ retryRet[p].kind = "max retries exceeded" =>
              /\ hist.att[p] = retryConfig + 1
              /\ hist.fails[p] = retryConfig + 1
              /\ retryRet[p].wraps = hist.lastFail[p]
              /\ retryRet[p].wraps # NilErr
        /\ (status[p] # 0 /\ status[p] \notin RetryableStatuses) =>
              pc[p] = "done" /\ retryRet[p].kind = "nil"
        /\ retryRet[p].kind = "ctx.Err" => ctxDone[p]
        /\ (pc[p] = "done" /\ retryRet[p].kind = "pending") =>
              ctxDone[p] \/ result[p].kind = "form error"

C5_Witness ==
    \E p \in DOMAIN pc :
        /\ retryRet[p].kind = "max retries exceeded"
        /\ retryRet[p].wraps = StatusErr(503)
        /\ hist.att[p] = retryConfig + 1
        /\ ~ctxDone[p]

\* C6: every network attempt is preceded by its own token acquisition: the
\* tokens taken from the limiter are at least the network attempts made.
C6_TokenPerAttempt == hist.taken >= SumOver(hist.att, DOMAIN pc)

\* C7: a call whose context is cancelled while it waits in the backoff sleep
\* starts no network attempt after the sleep: it goes on to return.
C7_CancelAbortsBackoff ==
    [][\A p \in DOMAIN pc : (pc[p] = "sleep" /\ ctxDone[p]) => pc'[p] # "do"]_vars

\* C8: an attempt answered with a non-retryable status ends the call at once:
\* doRequestWithRetry returns nil, DoRequest returns the body when the status
\* is below 400 and ErrRequestFailed when it is 400 or above, and a call that
\* has returned makes no further attempt.
C8_NonRetryableReturnsAtOnce ==
    [][\A p \in DOMAIN pc :
          /\ (hist.att'[p] # hist.att[p] /\ status'[p] # status[p]
                /\ status'[p] \notin RetryableStatuses) =>
                 /\ pc'[p] = "done"
                 /\ retryRet'[p] = Returned("nil", NilErr)
                 /\ status'[p] >= 400 => result'[p].kind = "ErrRequestFailed"
                 /\ (status'[p] < 400 /\ method[p] = "DoRequest") => result'[p].kind = "body"
          /\ pc[p] = "done" =>
                 /\ hist.att'[p] = hist.att[p]
                 /\ result'[p] = result[p]]_vars

C8_Witness ==
    \E p \in DOMAIN pc :
        /\ pc[p] = "done" /\ status[p] = 404 /\ result[p].kind = "ErrRequestFailed"
        /\ retryRet[p].kind = "nil"
        /\ hist.att[p] = 2

\* C9: the tokens available are between 0 and the capacity; the bucket starts
\* full; a refill tick that finds the bucket full adds nothing.
C9_TokensWithinCapacity ==
    /\ [](tokens >= 0 /\ tokens <= capacity)
    /\ []((hist.taken = 0 /\ hist.ticks = 0) => tokens = capacity)
    /\ [][(hist.ticks' # hist.ticks /\ tokens = capacity) => tokens' = tokens]_vars

C9_Witness == hist.ticks > 0 /\ hist.taken = 0 /\ tokens = capacity

\* C10: the Wait calls that returned nil are at most the capacity plus the
\* refill ticks so far; with no refill tick and no cancellation, once no Wait
\* can go on, exactly min(N, c) calls have returned and the rest are blocked.
C10_WaitsBoundedByTokens ==
    /\ hist.taken <= capacity + hist.ticks
    /\ (/\ hist.ticks = 0
        /\ \A p \in DOMAIN pc : ~ctxDone[p]
        /\ \A p \in DOMAIN pc : pc[p] = "wait" => tokens = 0) =>
           /\ hist.taken = Min(Cardinality(DOMAIN pc), capacity)
           /\ Cardinality({p \in DOMAIN pc : pc[p] = "wait"}) =
                 Cardinality(DOMAIN pc) - Min(Cardinality(DOMAIN pc), capacity)

C10_Witness ==
    /\ hist.ticks = 0
    /\ capacity < Cardinality(DOMAIN pc)
    /\ hist.taken = capacity
    /\ \E p \in DOMAIN pc : pc[p] = "wait" /\ ~ctxDone[p]

\* C11: with a ticker that keeps ticking, every caller of Wait whose context
\* is never cancelled eventually leaves Wait with a token (Wait returned nil),
\* however many callers wait at once.
C11_WaitersEventuallyAcquire ==
    \A p \in Waiters : ([]~ctxDone[p]) => <>(pc[p] = "loop")

C11_Witness ==
    /\ hist.taken > capacity
    /\ \A p \in DOMAIN pc : pc[p] = "loop" /\ ~ctxDone[p]

\* C12: a call whose context is cancelled while it is blocked in Wait and no
\* token is available leaves Wait only by returning: DoRequest and
\* DoMultipartForm alike return ErrRateLimitExceeded, having taken no token
\* and made no network attempt, and make none afterwards.
C12_CancelledWaitMakesNoAttempt ==
    /\ [][\A p \in DOMAIN pc :
            (pc[p] = "wait" /\ ctxDone[p] /\ tokens = 0 /\ pc'[p] # "wait") =>
                /\ pc'[p] = "done"
                /\ result'[p].kind = "ErrRateLimitExceeded"
                /\ hist.taken' = hist.taken
                /\ hist.att'[p] = 0]_vars
    /\ [](\A p \in DOMAIN pc :
            result[p].kind = "ErrRateLimitExceeded" =>
                pc[p] = "done" /\ hist.att[p] = 0 /\ retryRet[p] = Pending)

C12_Witness ==
    /\ hist.ticks = 0
    /\ hist.taken = capacity
    /\ \E p \in DOMAIN pc :
          /\ method[p] = "DoMultipartForm"
          /\ result[p].kind = "ErrRateLimitExceeded"
    /\ \E p \in DOMAIN pc : hist.att[p] > 0

(***************************************************************************)
(* Expiry, pruning, Delete, Clear and the failing Set.                     *)
(***************************************************************************)
\* An entry is past its time to live at time t.
PastTTL(entry, t) == t - entry.CreatedAt > entry.TTL

\* C13: whatever Get is called with, the entry whose value it returns is not
\* past its TTL at the time of the call, pruned or not.
C13_GetNeverReturnsExpired ==
    \A done \in BOOLEAN, q \in Queries :
        LET r == GetReturn(done, q)
        IN  r.found =>
              /\ r.hit \in DOMAIN entries
              /\ r.value = entries[r.hit].Response
              /\ ~PastTTL(entries[r.hit], now)

C13_Witness ==
    /\ metrics.CacheMisses > 0
    /\ \E k \in DOMAIN entries :
          /\ PastTTL(entries[k], now)
          /\ \E i \in 1..Len(keys) : keys[i] = k
          /\ ~GetReturn(FALSE, k).found

\* C14: a prune pass started in any reachable state leaves no entry that is
\* past its TTL at that time: such an entry is neither in the entry map nor
\* in the index afterwards, the index lists exactly the surviving entries
\* (so ItemCount, the size of the map, does not count it and Get, which
\* returns entries of the map only, cannot return it).
C14_PruneRemovesExpired ==
    \A o \in prune(entries, metrics, now) :
        /\ \A k \in DOMAIN entries :
              PastTTL(entries[k], now) =>
                  /\ k \notin DOMAIN o.entries
                  /\ \A i \in 1..Len(o.keys) : o.keys[i] # k
        /\ \A k \in DOMAIN o.entries : ~PastTTL(o.entries[k], now)
        /\ Len(o.keys) = Cardinality(DOMAIN o.entries)
        /\ Len(o.vectors) = Len(o.keys)
        /\ {o.keys[i] : i \in 1..Len(o.keys)} = DOMAIN o.entries

C14_Witness ==
    /\ \E k \in DOMAIN entries :
          PastTTL(entries[k], now) /\ \E i \in 1..Len(keys) : keys[i] = k
    /\ \E k \in DOMAIN entries : ~PastTTL(entries[k], now)
    /\ metrics.EvictionCount > 0

\* C15: a prune pass started in any reachable state, by the timer or by Set,
\* ends with the running size total (what GetStats().Size reports) at most
\* MaxCacheSize.
C15_SizeWithinBudgetAfterPrune ==
    \A o \in prune(entries, metrics, now) : o.metrics.Size <= MaxCacheSize

C15_Witness ==
    /\ now = 0
    /\ metrics.EvictionCount > 0
    /\ fresh = {}
    /\ metrics.Size <= MaxCacheSize
    /\ DOMAIN entries # {}

\* C16: the entries a prune pass evicts for size are least recently accessed:
\* none was accessed later than a survivor; and the pass evicts only while
\* the total exceeds MaxCacheSize: before the last eviction it still did, and
\* with the total within budget after the expired are gone nothing is evicted.
C16_EvictsLeastRecentlyAccessed ==
    \A o \in prune(entries, metrics, now) :
        LET expired == {k \in DOMAIN entries : PastTTL(entries[k], now)}
            live == DOMAIN entries \ expired
            gone == live \ DOMAIN o.entries
            size1 == metrics.Size - SumSize(entries, expired)
        IN  /\ DOMAIN o.entries \subseteq live
            /\ \A x \in gone, y \in DOMAIN o.entries :
                  entries[x].LastAccessed <= entries[y].LastAccessed
            /\ size1 <= MaxCacheSize => gone = {}
            /\ gone # {} =>
                  \E x \in gone :
                      /\ \A y \in gone : entries[y].LastAccessed <= entries[x].LastAccessed
                      /\ o.metrics.Size + entries[x].Size > MaxCacheSize

C16_Witness ==
    \E o \in prune(entries, metrics, now) :
        \E x \in DOMAIN entries \ DOMAIN o.entries, y \in DOMAIN o.entries :
            /\ ~PastTTL(entries[x], now)
            /\ entries[x].LastAccessed < entries[y].LastAccessed

\* C17: a prune pass adds to EvictionCount exactly the number of entries it
\* removes from the entry map and leaves the other counters alone; no step of
\* any operation, Clear included, lowers CacheHits, CacheMisses,
\* EvictionCount or TotalRequests.
C17_EvictionCountAndMonotoneCounters ==
    /\ [](\A o \in prune(entries, metrics, now) :
            /\ o.metrics.EvictionCount =
                   metrics.EvictionCount + Cardinality(DOMAIN entries \ DOMAIN o.entries)
            /\ DOMAIN o.entries \subseteq DOMAIN entries
            /\ o.metrics.CacheHits = metrics.CacheHits
            /\ o.metrics.CacheMisses = metrics.CacheMisses
            /\ o.metrics.TotalRequests = metrics.TotalRequests)
    /\ [][/\ metrics'.CacheHits >= metrics.CacheHits
          /\ metrics'.CacheMisses >= metrics.CacheMisses
          /\ metrics'.EvictionCount >= metrics.EvictionCount
          /\ metrics'.TotalRequests >= metrics.TotalRequests]_vars

C17_Witness ==
    /\ metrics.EvictionCount > 0
    /\ metrics.CacheHits > 0
    /\ metrics.Size = 0
    /\ DOMAIN entries = {}
    /\ now > ConfigTTL

\* C18: Delete(k) returns nil; with k present it removes k's entry, every
\* index slot of k and k's size from the total; with k absent it changes
\* neither entries, index, size nor counters.
C18_DeleteRemovesEntryAndSlots ==
    /\ [](\A k \in StoredKeys : DeleteReturn(k) = "nil")
    /\ [][\A k \in StoredKeys :
            Delete(k) =>
                IF k \in DOMAIN entries
                THEN /\ k \notin DOMAIN entries'
                     /\ \A i \in 1..Len(keys') : keys'[i] # k
                     /\ Len(vectors') = Len(keys')
                     /\ metrics'.Size = metrics.Size - entries[k].Size
                     /\ \A q \in Queries : (GetReturn(FALSE, q).hit # k)'
                ELSE UNCHANGED <<entries, vectors, keys, metrics>>]_vars

\* C19: Clear leaves Size 0, ItemCount 0 and an empty index, keeps the hit
\* and miss counters, and starts no save.
C19_ClearEmptiesAndKeepsCounters ==
    [][Clear =>
          /\ GetStats'.Size = 0
          /\ GetStats'.ItemCount = 0
          /\ keys' = <<>> /\ vectors' = <<>>
          /\ GetStats'.Hits = GetStats.Hits
          /\ GetStats'.Misses = GetStats.Misses
          /\ saving' = saving]_vars

C19_Witness ==
    /\ persistPath # ""
    /\ saving = 1
    /\ metrics.CacheHits > 0
    /\ DOMAIN entries = {} /\ keys = <<>>
    /\ metrics.Size = 0
    /\ metrics.EvictionCount = 0

\* C20: a Set whose context is already done returns an error and changes
\* neither the entry map, the index, the size total, the counters nor the
\* saves running.
C20_FailedSetChangesNothing ==
    /\ [](\A q \in StoredKeys : SetReturn(TRUE, q) # "nil")
    /\ [][\A q \in StoredKeys, r \in Responses :
            Set(TRUE, q, r) => UNCHANGED <<entries, vectors, keys, metrics, saving>>]_vars

C20_Witness ==
    /\ persistPath # ""
    /\ saving = 0
    /\ DOMAIN entries # {}
    /\ Len(keys) < MaxIndex
    /\ \A q \in StoredKeys : SetReturn(TRUE, q) = "failed to generate embedding"

\* C21: a Get whose context is already done returns (nil, false), adds one to
\* CacheMisses and nothing to CacheHits, and changes no entry (its
\* LastAccessed and AccessCount included), whatever the cache holds.
C21_FailedGetIsAMiss ==
    /\ [](\A q \in Queries : GetReturn(TRUE, q) = [found |-> FALSE, value |-> None, hit |-> None])
    /\ [][\A q \in Queries :
            Get(TRUE, q) =>
                /\ metrics'.CacheMisses = metrics.CacheMisses + 1
                /\ metrics'.CacheHits = metrics.CacheHits
                /\ entries' = entries]_vars

C21_Witness ==
    /\ metrics.CacheMisses = 1
    /\ metrics.CacheHits = 0
    /\ \E k \in DOMAIN entries : GetReturn(FALSE, k).found /\ GetReturn(FALSE, k).hit = k
    /\ \A k \in DOMAIN entries : entries[k].AccessCount = 0

\* C27: a call makes at most one attempt more than the MaxRetries its client
\* was configured with; configured with 0, it makes one attempt and no retry.
C27_AttemptsWithinConfiguredRetries ==
    \A p \in DOMAIN pc : hist.att[p] <= hist.cfgRetries + 1

(***************************************************************************)
(* Persistence, under SpecCacheRestart.                                    *)
(***************************************************************************)
\* C24: Set returns nil whatever becomes of the save it starts, and a save
\* that fails, at os.Create or at Encode, leaves the entry map, the index
\* and the counters (the size total among them) as they were.
C24_FailedSaveLeavesCacheAlone ==
    /\ [](\A q \in StoredKeys : SetReturn(FALSE, q) = "nil")
    /\ [][(SaveCreate(FALSE) \/ SaveDone(FALSE)) =>
            UNCHANGED <<entries, vectors, keys, metrics>>]_vars

C24_Witness ==
    /\ file.state = "empty"
    /\ saving = 0
    /\ DOMAIN entries = StoredKeys
    /\ metrics.Size = SumSize(entries, DOMAIN entries)

\* C25: whatever the file holds when NewSemanticCache loads it, the new cache
\* holds exactly the entries of the document that are not past their TTL at
\* that time, as persisted, one index slot for each with its embedding, and
\* a size total that is the sum of their sizes; with no readable document it
\* is empty.
C25_LoadKeepsLiveEntries ==
    \A o \in loadPersistedData(file, now) :
        LET doc == IF file.state = "doc" THEN file.doc ELSE <<>>
            live == {k \in DOMAIN doc : now - doc[k].CreatedAt <= doc[k].TTL}
        IN  /\ DOMAIN o.entries = live
            /\ \A k \in live : o.entries[k] = doc[k]
            /\ Len(o.keys) = Cardinality(live)
            /\ Len(o.vectors) = Len(o.keys)
            /\ {o.keys[i] : i \in 1..Len(o.keys)} = live
            /\ \A i \in 1..Len(o.keys) : o.vectors[i] = doc[o.keys[i]].Embedding
            /\ o.Size = SumSize(doc, live)

C25_Witness ==
    /\ file.state = "doc"
    /\ \E k, j \in DOMAIN file.doc :
          /\ PastTTL(file.doc[k], now)
          /\ ~PastTTL(file.doc[j], now)
          /\ DOMAIN entries = {j}
          /\ entries[j] = file.doc[j]
    /\ metrics.Size = SumSize(entries, DOMAIN entries)
    /\ saving = 0

\* C26: at most one Save is between its Lock and its Unlock; the file never
\* holds bytes of two writers; and a Save that completes leaves as the
\* document the whole entry map it encoded.
C26_SavesAreSerialized ==
    /\ [](inSave <= 1 /\ file.state # "mixed")
    /\ [][SaveDone(TRUE) => file' = [state |-> "doc", doc |-> Encode(entries)]]_vars

C26_Witness ==
    /\ file.state = "doc"
    /\ DOMAIN file.doc = StoredKeys
    /\ saving = 0
    /\ metrics.EvictionCount = 0
    /\ now = 0

(***************************************************************************)
(* Concurrency on the cache, under SpecThreads.                            *)
(***************************************************************************)
\* C22: the stats a GetStats returns are the stats of one state it ran
\* through in which no writer was inside its critical section.
C22_GetStatsIsASnapshot ==
    \A t \in Threads :
        (th[t].op = "GetStats" /\ th[t].pc = "done") => th[t].st \in win[t]

\* The goroutines inside a writer's critical section, and inside Get's lookup.
WritersInside == {t \in Threads : th[t].op \in {"Set", "Delete", "Clear", "prune"} /\ th[t].pc = "in"}
ReadersInside ==
    {t \in Threads : th[t].op = "Get" /\ (th[t].pc = "scan" \/ (th[t].pc = "wr" /\ th[t].best # None))}

\* C23: at most one writer is inside its critical section, and no Get is
\* inside its lookup while one is; so nothing is inside while prune is.
C23_WritersExcludeEachOtherAndReaders ==
    /\ Cardinality(WritersInside) <= 1
    /\ WritersInside # {} => ReadersInside = {}
    /\ \A t \in WritersInside : mu.writer = t
    /\ \A t \in ReadersInside : t \in mu.readers
    /\ th[Timer].pc = "in" => \A t \in Callers : th[t].pc \notin {"scan", "in"}

C23_Witness ==
    /\ \E t \in WritersInside : th[t].op = "prune"
    /\ \E t \in Threads : th[t].op = "Get" /\ th[t].pc = "rlock"
    /\ DOMAIN entries # {}

(***************************************************************************)
(* The client around cache and transport, under SpecClient.                *)
(***************************************************************************)
\* C28: a call that returned a cached response took no token and made no
\* attempt; Set was called at most once, with the call's key, after DoRequest
\* returned a body that parsed; a call that returned an error called no Set
\* and left the index alone; and once Set was called the call returns the
\* response of the network whatever Set returned.
C28_CacheAroundTheNetworkCall ==
    /\ [](/\ (cl.ret.kind = "resp" /\ cl.ret.from = "cache") =>
               /\ hist.taken = 0
               /\ hist.att[TheCall] = 0
               /\ pc[TheCall] = "wait"
               /\ cl.sets = <<>>
          /\ cl.sets # <<>> =>
               /\ Len(cl.sets) = 1
               /\ cl.sets[1].key = cl.cacheKey
               /\ pc[TheCall] = "done"
               /\ result[TheCall].kind = "body"
               /\ cl.ret = ReturnedResp(cl.result, "network")
          /\ (cl.pc = "returned" /\ cl.ret.kind # "resp") =>
               /\ cl.sets = <<>>
               /\ cl.ret.value = None
          /\ (cl.pc = "returned" /\ cl.ret.kind = "resp" /\ cl.ret.from = "network"
                 /\ cl.cache) =>
               Len(cl.sets) = 1)
    /\ [][(keys' # keys \/ vectors' # vectors \/ metrics'.Size # metrics.Size
             \/ DOMAIN entries' # DOMAIN entries) =>
            /\ cl.pc = "set"
            /\ result[TheCall].kind = "body"
            /\ cl'.sets = <<[key |-> cl.cacheKey, err |-> "nil"]>>
            /\ cl'.ret = ReturnedResp(cl.result, "network")
            /\ cl.cacheKey \in DOMAIN entries'
            /\ entries'[cl.cacheKey].Response = cl.result]_vars

C28_Witness ==
    /\ cl.pc = "returned"
    /\ cl.sets # <<>>
    /\ cl.sets[1].err # "nil"
    /\ cl.ret.kind = "resp"
    /\ cl.cacheKey \notin DOMAIN entries

(***************************************************************************)
(* The options, under SpecOptions.                                         *)
(***************************************************************************)
\* C30: when the last option applied is WithRateLimit(n), n > 0, the limiter
\* of the client's transport is refilled with n tokens per 60 seconds.
C30_RateLimitIsPerMinute ==
    (cfg.applied.name = "WithRateLimit" /\ cfg.applied.arg > 0) =>
        refillsPerMinute(cfg.httpClient.limiter) = cfg.applied.arg

(***************************************************************************)
(* The batch processor, under SpecBatch.                                   *)
(***************************************************************************)
\* C29: the requests in flight are never more than maxParallel.
C29_InFlightWithinMaxParallel == Cardinality(InFlight) <= bp.maxParallel

(***************************************************************************)
(* Wait and a context already cancelled, under SpecLimiter.                *)
(***************************************************************************)
\* C40: a call at Wait whose context is already cancelled leaves Wait with
\* the context's error and with the tokens as they were.
C40_CancelledWaitTakesNoToken ==
    [][\A p \in DOMAIN pc :
          (ctxDone[p] /\ pc[p] = "wait" /\ pc'[p] # "wait") =>
              /\ tokens' = tokens
              /\ pc'[p] = "done"
              /\ result'[p] = wrapRateLimit(NilErr)]_vars

(***************************************************************************)
(* NewHTTPClient and WithTimeout, under SpecOptions.                       *)
(***************************************************************************)
\* What C31 expects of the client NewHTTPClient builds from config.
DefaultsFilledIn(config, h) ==
    /\ h.ReadTimeout = (IF config.MaxRequestTimeout = 0 THEN 30 ELSE config.MaxRequestTimeout)
    /\ h.RequestsPerSecond = (IF config.RequestsPerSecond = 0 THEN 10
                              ELSE config.RequestsPerSecond)
    /\ h.MaxRetries = (IF config.MaxRetries = 0 THEN 3 ELSE config.MaxRetries)
    /\ h.RetryWaitTime = (IF config.RetryWaitTime = 0 THEN 1 ELSE config.RetryWaitTime)
    /\ h.limiter.capacity = h.RequestsPerSecond
    /\ h.baseHeaders = config.BaseHeaders

\* C31: NewHTTPClient puts the default in place of each zero field and keeps
\* the others, gives the limiter the capacity RequestsPerSecond and copies
\* the base headers (none when none are given); so does the client
\* WithHTTPConfig builds, from the config with the current headers merged in.
C31_NewHTTPClientDefaults ==
    /\ [](\A config \in HTTPConfigs : DefaultsFilledIn(config, BuildHTTPClient(config)))
    /\ [][\A config \in HTTPConfigs :
             WithHTTPConfig(config) =>
                 DefaultsFilledIn(
                     [config EXCEPT !.BaseHeaders = copyInto(@, cfg.httpClient.baseHeaders)],
                     cfg'.httpClient)]_vars

C31_Witness ==
    /\ cfg.applied.name = "WithHTTPConfig"
    /\ cfg.httpClient.ReadTimeout = 30
    /\ cfg.httpClient.MaxRetries = 3
    /\ cfg.httpClient.RetryWaitTime = 2
    /\ cfg.httpClient.limiter.capacity = 10
    /\ "X-Org" \in DOMAIN cfg.httpClient.baseHeaders

\* C38: WithTimeout(t) leaves the transport's retry count, retry wait time,
\* limiter capacity and base headers as they were.
C38_WithTimeoutChangesOnlyTimeout ==
    [][\A t \in Timeouts :
          WithTimeout(t) =>
              /\ cfg'.httpClient.ReadTimeout = t
              /\ cfg'.httpClient.MaxRetries = cfg.httpClient.MaxRetries
              /\ cfg'.httpClient.RetryWaitTime = cfg.httpClient.RetryWaitTime
              /\ cfg'.httpClient.limiter.capacity = cfg.httpClient.limiter.capacity
              /\ cfg'.httpClient.baseHeaders = cfg.httpClient.baseHeaders]_vars

(***************************************************************************)
(* ChatCompletionRequest.Validate, under SpecClient.                       *)
(***************************************************************************)
\* The first of the three checks, in the order C32 gives them, that the
\* request fails; "nil" when it fails none.
FirstFailingCheck(r) ==
    IF r.Model \notin DOMAIN modelInfoMap THEN "invalid model"
    ELSE IF r.Messages = 0 THEN "at least one message is required"
    ELSE IF modelInfoMap[r.Model].MaxOutput > 0 /\ r.MaxTokens > modelInfoMap[r.Model].MaxOutput
         THEN "max_tokens exceeds model limit"
    ELSE "nil"

\* C32: Validate returns an error exactly when the model is not in the
\* registry, or there is no message, or the model has a MaxOutput above 0 and
\* MaxTokens exceeds it; the first failing check, in that order, gives the
\* error, and every other request gets nil. CreateChatCompletion returns
\* ErrInvalidRequest wrapping that error, or goes on when it is nil.
C32_ValidateChecksInOrder ==
    /\ [](\A r \in Requests : Validate(r) = FirstFailingCheck(r))
    /\ [][\A r \in Requests, content \in Queries :
             CreateChatCompletion(r, content) =>
                 IF FirstFailingCheck(r) = "nil"
                 THEN cl'.pc \in {"get", "net"} /\ cl'.ret = NotReturned
                 ELSE /\ cl'.pc = "returned"
                      /\ cl'.ret.kind = "ErrInvalidRequest"
                      /\ cl'.ret.wraps = FirstFailingCheck(r)]_vars

C32_Witness ==
    /\ cl.pc = "returned"
    /\ cl.ret.kind = "ErrInvalidRequest"
    /\ cl.ret.wraps = "max_tokens exceeds model limit"
    /\ hist.taken = 0

(***************************************************************************)
(* Overwriting Set and the size budget (SpecCache); concurrent Gets        *)
(* (SpecThreads).                                                          *)
(***************************************************************************)
SlotsOf(ks, k) == {i \in 1..Len(ks) : ks[i] = k}

\* C33: Set(k, v2) on a cache that holds k, each key in one index slot and
\* the size total exact, overwrites: afterwards the map holds k with v2, the
\* index has exactly one slot for k, the size total is the sum of the sizes
\* of the entries held (v2's for k), and Get(k) returns v2.
C33_SetOverwrites ==
    [][\A k \in StoredKeys, v2 \in Responses :
          (/\ Set(FALSE, k, v2)
           /\ k \in DOMAIN entries
           /\ \A j \in DOMAIN entries : Cardinality(SlotsOf(keys, j)) = 1
           /\ metrics.Size = SumSize(entries, DOMAIN entries))
          => /\ k \in DOMAIN entries'
             /\ entries'[k].Response = v2
             /\ Cardinality(SlotsOf(keys', k)) = 1
             /\ GetStats'.ItemCount = Cardinality(DOMAIN entries')
             /\ metrics'.Size = SumSize(entries', DOMAIN entries')
             /\ GetReturn(FALSE, k)' = [found |-> TRUE, value |-> v2, hit |-> k]]_vars

\* C37: when Set returns after inserting a value whose size is at most
\* MaxCacheSize, under a key the cache did not hold and from a size total
\* that was exact, the size total is at most MaxCacheSize.
C37_SetFitsTheBudget ==
    [][\A q \in StoredKeys, r \in Responses :
          (/\ Set(FALSE, q, r)
           /\ calculateSize(r) <= MaxCacheSize
           /\ q \notin DOMAIN entries
           /\ metrics.Size = SumSize(entries, DOMAIN entries))
          => metrics'.Size <= MaxCacheSize]_vars

\* The Get calls that have returned, and those still running.
GetsReturned == {t \in Callers : th[t].op = "Get" /\ th[t].pc = "done"}
GetsRunning == {t \in Callers : th[t].op = "Get" /\ th[t].pc # "done"}

\* C35: with n Get calls returned and none running, TotalRequests = n and
\* CacheHits + CacheMisses = n, however the calls interleaved.
C35_NoGetIncrementLost ==
    GetsRunning = {} =>
        /\ metrics.TotalRequests = Cardinality(GetsReturned)
        /\ metrics.CacheHits + metrics.CacheMisses = Cardinality(GetsReturned)

C36_SaveReadsNoMapUnderMutation ==
    [][\A ok \in BOOLEAN : SaveDone(ok) => mu.writer = None]_vars

(***************************************************************************)
(* ProcessBatch, under SpecBatchFair.                                      *)
(***************************************************************************)
\* C39: with every request completing, ProcessBatch returns, whatever
\* batchSize and rate limit, and what it returns holds one response per
\* input request, in input order.
C39_ProcessBatchTerminates ==
    <>(bp.pc = "returned" /\ bp.totalResponses = [j \in 1..bp.n |-> j])

====
